---- MODULE Spec2Model ----
(***************************************************************************)
(* A model of the secret-detection engine and of the api.meta compliance   *)
(* validator of the combined-hooks repository.                             *)
(*                                                                         *)
(* Text is modelled as a sequence of one-character strings, so that the    *)
(* regular expressions, the entropy score, the path tests and the diff     *)
(* parser work on the characters the Python code works on.                 *)
(***************************************************************************)
EXTENDS Integers, Sequences, FiniteSets, TLC

VARIABLES
  found_secrets,     \* SecretScanner.found_secrets (hooks variant): a sequence of Findings
  seen_file_lines,   \* SecretScanner._seen_file_lines: a set of <<file_path, line_number>>
  returned,          \* the value returned by the last scanner call
  lastCall,          \* the last scanner call and its arguments
  calls,             \* the number of scanner calls made on this instance
  unreadable,        \* environment: the files whose read fails
  diffIn,            \* Diff Extractor: the diff text handed to get_git_diff
  diffOut,           \* Diff Extractor: the Changed-Lines Map it returned
  diffPc,            \* Diff Extractor: "input" before the call, "done" after
  metaIn,            \* Meta Validator: the descriptor under validation
  errors,            \* BaseValidator.errors
  metaRet,           \* the value validate_meta_content returned
  ruleLog,           \* the rule functions validate_meta_content called, in call order
  metaPc,            \* Meta Validator: "input" before the call, "done" after
  exclIn,            \* Exclusion Engine: the tracked files handed to the filters
  exclKept,          \* the files each scanner variant's repository filter kept
  exclPc,            \* Exclusion Engine: "input" before the call, "done" after
  gitEnv,            \* get_pushed_files: the outcome of every git command it may run
  pushRet,           \* get_pushed_files: what the call did (returned list or raised)
  pushTried,         \* get_pushed_files: the fallback levels it attempted, in order
  pushPc,            \* get_pushed_files: "input" before the call, "done" after
  entIn,             \* Entropy Scorer: the text, and the order its set of characters iterates in
  entOut,            \* Entropy Scorer: what each calculate_entropy returned
  apiErrors,         \* APIValidator.errors
  mvErrors,          \* APIValidator.meta_validator.errors
  apiRuns,           \* the number of validation runs made on this APIValidator
  apiLast,           \* the last run: its call, its inputs and what it did
  amended,           \* the number of times the last commit's message was amended
  auditFiles,        \* the number of .apigenie_validation_* files written
  apiRepo,           \* the repository the APIValidator was built in: its folders and name
  api_type,          \* APIValidator.api_type
  skip_validation,   \* APIValidator.skip_validation
  meta_files,        \* APIValidator.meta_files, None while the attribute is not set
  genie,             \* SecretScanner of secretgenie: found_secrets, _seen_secrets, _seen_file_lines
  genieLast,         \* the last call on it, the value it returned and the call before it
  genieCalls         \* the number of calls made on it

vars == <<found_secrets, seen_file_lines, returned, lastCall, calls, unreadable,
          diffIn, diffOut, diffPc, metaIn, errors, metaRet, ruleLog, metaPc,
          exclIn, exclKept, exclPc, gitEnv, pushRet, pushTried, pushPc,
          entIn, entOut, apiErrors, mvErrors, apiRuns, apiLast, amended, auditFiles,
          apiRepo, api_type, skip_validation, meta_files,
          genie, genieLast, genieCalls>>

scanVars == <<found_secrets, seen_file_lines, returned, lastCall, calls, unreadable>>
diffVars == <<diffIn, diffOut, diffPc>>
metaVars == <<metaIn, errors, metaRet, ruleLog, metaPc>>
exclVars == <<exclIn, exclKept, exclPc>>
pushVars == <<gitEnv, pushRet, pushTried, pushPc>>
entVars == <<entIn, entOut>>
apiBuilt == <<apiRepo, api_type, skip_validation, meta_files>>
apiVars == <<apiErrors, mvErrors, apiRuns, apiLast, amended, auditFiles,
             apiRepo, api_type, skip_validation, meta_files>>
genieVars == <<genie, genieLast, genieCalls>>

-----------------------------------------------------------------------------
(* Characters and strings                                                  *)

UpperSeq == <<"A", "B", "C", "D", "E", "F", "G", "H", "I", "J", "K", "L", "M",
              "N", "O", "P", "Q", "R", "S", "T", "U", "V", "W", "X", "Y", "Z">>

LowerSeq == <<"a", "b", "c", "d", "e", "f", "g", "h", "i", "j", "k", "l", "m",
              "n", "o", "p", "q", "r", "s", "t", "u", "v", "w", "x", "y", "z">>

Upper == {UpperSeq[i] : i \in 1..Len(UpperSeq)}

Lower == {LowerSeq[i] : i \in 1..Len(LowerSeq)}

Digit == {"0", "1", "2", "3", "4", "5", "6", "7", "8", "9"}

\* The characters Python's \s and str.strip() take for white space (a line
\* of splitlines() holds no line break).
Space == {" ", "\t"}

\* The characters of \w.
WordChar == Upper \cup Lower \cup Digit \cup {"_"}

LowerTable == [i \in 1..Len(UpperSeq) |-> LowerSeq[i]]

\* str.lower() on one character.
ToLower(c) ==
  IF c \in Upper THEN LowerTable[CHOOSE i \in 1..Len(UpperSeq) : UpperSeq[i] = c] ELSE c

\* str.upper() on one character.
ToUpper(c) ==
  IF c \in Lower THEN UpperSeq[CHOOSE i \in 1..Len(LowerSeq) : LowerSeq[i] = c] ELSE c

\* str.lower()
LowerStr(s) == [i \in 1..Len(s) |-> ToLower(s[i])]

\* s[i:] of Python with a 1-based first index.
Drop(s, n) == IF n >= Len(s) THEN <<>> ELSE SubSeq(s, n + 1, Len(s))

\* s[:n]
Take(s, n) == IF n <= 0 THEN <<>> ELSE SubSeq(s, 1, IF n > Len(s) THEN Len(s) ELSE n)

\* s occurs in t at position p (1-based).
OccursAt(s, t, p) ==
  /\ p >= 1
  /\ p + Len(s) - 1 <= Len(t)
  /\ \A i \in 1..Len(s) : t[p + i - 1] = s[i]

\* str.startswith
StartsWith(t, s) == OccursAt(s, t, 1)

\* str.endswith
EndsWith(t, s) == Len(s) <= Len(t) /\ OccursAt(s, t, Len(t) - Len(s) + 1)

\* the Python test `s in t` on strings
Contains(t, s) == \E p \in 1..(Len(t) - Len(s) + 1) : OccursAt(s, t, p)

\* str.strip()
Strip(s) ==
  IF \A i \in 1..Len(s) : s[i] \in Space THEN <<>>
  ELSE LET a == CHOOSE i \in 1..Len(s) :
                  s[i] \notin Space /\ \A j \in 1..(i - 1) : s[j] \in Space
           b == CHOOSE i \in 1..Len(s) :
                  s[i] \notin Space /\ \A j \in (i + 1)..Len(s) : s[j] \in Space
       IN SubSeq(s, a, b)

\* str.lstrip(chars): every leading character that is in chars is removed.
LStripChars(s, chars) ==
  IF \A i \in 1..Len(s) : s[i] \in chars THEN <<>>
  ELSE LET a == CHOOSE i \in 1..Len(s) :
                  s[i] \notin chars /\ \A j \in 1..(i - 1) : s[j] \in chars
       IN SubSeq(s, a, Len(s))

RECURSIVE SplitFrom(_, _, _, _)
\* str.split(sep) for a one-character separator: the pieces of s from
\* position p on, cur being the piece under construction.
SplitFrom(s, sep, p, cur) ==
  IF p > Len(s) THEN <<cur>>
  ELSE IF s[p] = sep THEN <<cur>> \o SplitFrom(s, sep, p + 1, <<>>)
  ELSE SplitFrom(s, sep, p + 1, Append(cur, s[p]))

Split(s, sep) == SplitFrom(s, sep, 1, <<>>)

\* The elements of a sequence, as a set.
Range(s) == {s[i] : i \in 1..Len(s)}

RECURSIVE SelectWords(_, _)
\* str.split() without argument: the maximal runs of non-space characters.
SelectWords(s, cur) ==
  IF s = <<>> THEN (IF cur = <<>> THEN <<>> ELSE <<cur>>)
  ELSE IF Head(s) \in Space
       THEN (IF cur = <<>> THEN <<>> ELSE <<cur>>) \o SelectWords(Tail(s), <<>>)
       ELSE SelectWords(Tail(s), Append(cur, Head(s)))

Words(s) == SelectWords(s, <<>>)

-----------------------------------------------------------------------------
(* 4.1 Entropy Scorer                                                      *)

\* math.log2(k) for k = 1..64, in millionths (rounded to the nearest).
Log2Micro ==
  <<       0, 1000000, 1584963, 2000000, 2321928, 2584963, 2807355, 3000000,
     3169925, 3321928, 3459432, 3584963, 3700440, 3807355, 3906891, 4000000,
     4087463, 4169925, 4247928, 4321928, 4392317, 4459432, 4523562, 4584963,
     4643856, 4700440, 4754888, 4807355, 4857981, 4906891, 4954196, 5000000,
     5044394, 5087463, 5129283, 5169925, 5209453, 5247928, 5285402, 5321928,
     5357552, 5392317, 5426265, 5459432, 5491853, 5523562, 5554589, 5584963,
     5614710, 5643856, 5672425, 5700440, 5727920, 5754888, 5781360, 5807355,
     5832890, 5857981, 5882643, 5906891, 5930737, 5954196, 5977280, 6000000 >>

\* freq[c] of calculate_entropy.
Freq(value, c) == Cardinality({i \in 1..Len(value) : value[i] = c})

RECURSIVE EntropySum(_, _)
\* The sum, over the distinct characters of value first met at a position
\* >= p, of f * (log2(n) - log2(f)), which is n times the entropy.
EntropySum(value, p) ==
  IF p > Len(value) THEN 0
  ELSE LET c == value[p]
           first == \A j \in 1..(p - 1) : value[j] # c
           f == Freq(value, c)
       IN (IF first THEN f * (Log2Micro[Len(value)] - Log2Micro[f]) ELSE 0)
          + EntropySum(value, p + 1)

\* SecretScanner.calculate_entropy, in millionths of a bit:
\* -sum(f/n * log2(f/n)) = sum(f * (log2 n - log2 f)) / n.
calculate_entropy(value) ==
  IF value = <<>> THEN 0 ELSE EntropySum(value, 1) \div Len(value)

\* ENTROPY_THRESHOLDS of hooks/commit_scripts/config.py, in millionths.
ENTROPY_THRESHOLDS ==
  [password |-> 4000000, api_key |-> 4500000, token |-> 4000000,
   secret |-> 4000000, default |-> 4000000]

-----------------------------------------------------------------------------
(* Regular expressions, as re.finditer applies them                        *)
(*                                                                         *)
(* A pattern is [ci, elems]: ci is the (?i) flag and elems is a sequence   *)
(* of elements, each a literal, an alternation of literals (optional when  *)
(* followed by ?), or a greedy repetition {min,max} of a character class.  *)
(* Every pattern of PATTERNS and of var_patterns has this shape.           *)

Lit(s) == [k |-> "lit", s |-> s]

Alt(alts) == [k |-> "alt", alts |-> alts, opt |-> FALSE]

OptAlt(alts) == [k |-> "alt", alts |-> alts, opt |-> TRUE]

\* set{min,max}; max = -1 stands for no upper limit.
Rep(set, min, max) == [k |-> "cls", set |-> set, neg |-> FALSE, min |-> min, max |-> max]

\* [^set]{min,max}
NotRep(set, min, max) == [k |-> "cls", set |-> set, neg |-> TRUE, min |-> min, max |-> max]

\* Two characters are the same, up to case under (?i).
SameChar(ci, a, b) == IF ci THEN ToLower(a) = ToLower(b) ELSE a = b

\* The literal s stands in line at position pos.
LitAt(ci, s, line, pos) ==
  /\ pos + Len(s) - 1 <= Len(line)
  /\ \A i \in 1..Len(s) : SameChar(ci, line[pos + i - 1], s[i])

\* Character c is in the class of element e.
InClass(ci, e, c) ==
  LET hit == IF ci THEN ToLower(c) \in e.set \/ ToUpper(c) \in e.set
                   ELSE c \in e.set
  IN IF e.neg THEN ~hit ELSE hit

RECURSIVE RunLen(_, _, _, _, _)
\* The number of consecutive characters of e's class from pos on, at most cap.
RunLen(ci, e, line, pos, cap) ==
  IF cap = 0 \/ pos > Len(line) \/ ~InClass(ci, e, line[pos]) THEN 0
  ELSE 1 + RunLen(ci, e, line, pos + 1, cap - 1)

NoMatch == [ok |-> FALSE, ends |-> <<>>]

RECURSIVE MatchElems(_, _, _, _)
RECURSIVE TryAlts(_, _, _, _, _)
RECURSIVE TryCounts(_, _, _, _, _)

\* The backtracking match of the elements k.. of pattern p at position pos:
\* [ok, ends], ends[j] being the position after the j-th element matched.
MatchElems(p, k, line, pos) ==
  IF k > Len(p.elems) THEN [ok |-> TRUE, ends |-> <<>>]
  ELSE LET e == p.elems[k] IN
    CASE e.k = "lit" ->
           IF LitAt(p.ci, e.s, line, pos)
           THEN LET r == MatchElems(p, k + 1, line, pos + Len(e.s))
                IN IF r.ok THEN [ok |-> TRUE, ends |-> <<pos + Len(e.s)>> \o r.ends]
                   ELSE NoMatch
           ELSE NoMatch
      [] e.k = "alt" -> TryAlts(p, k, line, pos, 1)
      [] e.k = "cls" ->
           LET cap == IF e.max = -1 THEN Len(line) ELSE e.max
               run == RunLen(p.ci, e, line, pos, cap)
           IN IF run < e.min THEN NoMatch ELSE TryCounts(p, k, line, pos, run)

\* The alternatives a.. of element k in their order, then (for an optional
\* group) the empty match.
TryAlts(p, k, line, pos, a) ==
  LET e == p.elems[k] IN
  IF a > Len(e.alts)
  THEN IF e.opt
       THEN LET r == MatchElems(p, k + 1, line, pos)
            IN IF r.ok THEN [ok |-> TRUE, ends |-> <<pos>> \o r.ends] ELSE NoMatch
       ELSE NoMatch
  ELSE LET s == e.alts[a]
           r == IF LitAt(p.ci, s, line, pos)
                THEN MatchElems(p, k + 1, line, pos + Len(s))
                ELSE NoMatch
       IN IF r.ok THEN [ok |-> TRUE, ends |-> <<pos + Len(s)>> \o r.ends]
          ELSE TryAlts(p, k, line, pos, a + 1)

\* The greedy repetition of element k: n characters, then n - 1, ... down to min.
TryCounts(p, k, line, pos, n) ==
  LET e == p.elems[k]
      r == MatchElems(p, k + 1, line, pos + n)
  IN IF r.ok THEN [ok |-> TRUE, ends |-> <<pos + n>> \o r.ends]
     ELSE IF n > e.min THEN TryCounts(p, k, line, pos, n - 1)
     ELSE NoMatch

RECURSIVE FindIter(_, _, _)
\* re.finditer(p, line) from position from on: the matches, left to right
\* and not overlapping, each [start, ends].
FindIter(p, line, from) ==
  IF from > Len(line) + 1 THEN <<>>
  ELSE LET r == MatchElems(p, 1, line, from) IN
       IF r.ok
       THEN LET end == r.ends[Len(r.ends)]
            IN <<[start |-> from, ends |-> r.ends]>>
               \o FindIter(p, line, IF end > from THEN end ELSE from + 1)
       ELSE FindIter(p, line, from + 1)

\* match.group(0)
Group0(m, line) == SubSeq(line, m.start, m.ends[Len(m.ends)] - 1)

\* match.group(g) for the group made of element g of the pattern.
GroupOf(m, line, g) ==
  SubSeq(line, IF g = 1 THEN m.start ELSE m.ends[g - 1], m.ends[g] - 1)

-----------------------------------------------------------------------------
(* 4.2 Pattern Catalog                                                     *)

Alnum == Upper \cup Lower \cup Digit

SepChars == {"_", "-", "."}

Base64Chars == Alnum \cup {"/", "+", "="}

\* PATTERNS of hooks/commit_scripts/config.py, in their declared order. A
\* config holds only the keys the source gives it; name_group is the element
\* that forms group 1 of a check_name pattern.
PATTERNS ==
  << [pattern |-> [ci |-> TRUE, elems |->
        <<Lit(<<"a", "w", "s">>), Rep(SepChars, 0, -1), Alt(<<<<"a", "c", "c", "e", "s", "s">>, <<"s", "e", "c", "r", "e", "t">>, <<"k", "e", "y">>>>),
          Rep(SepChars, 0, -1), Rep(Space, 0, -1), Rep({"=", ":"}, 1, 1),
          Rep(Space, 0, -1), Rep(Base64Chars, 16, -1)>>],
      type |-> "AWS Credential",
      config |-> [min_length |-> 16, require_entropy |-> TRUE, threshold |-> 4500000]],
     [pattern |-> [ci |-> FALSE, elems |->
        <<Lit(<<"A", "K", "I", "A">>), Rep(Digit \cup Upper, 16, 16)>>],
      type |-> "AWS Access Key ID",
      config |-> [min_length |-> 20, require_entropy |-> TRUE, threshold |-> 4500000]],
     [pattern |-> [ci |-> TRUE, elems |->
        <<Lit(<<"-", "-", "-", "-", "-", "B", "E", "G", "I", "N">>), Rep(Space, 1, -1),
          Alt(<<<<"R", "S", "A">>, <<"O", "P", "E", "N", "S", "S", "H">>, <<"D", "S", "A">>, <<"E", "C">>, <<"P", "G", "P">>>>), Rep(Space, 1, -1),
          Lit(<<"P", "R", "I", "V", "A", "T", "E">>), Rep(Space, 1, -1), Lit(<<"K", "E", "Y", "-", "-", "-", "-", "-">>),
          Rep(Base64Chars \cup Space, 1, -1), Lit(<<"-", "-", "-", "-", "-", "E", "N", "D">>)>>],
      type |-> "Private Key",
      config |-> [require_entropy |-> FALSE]],
     [pattern |-> [ci |-> TRUE, elems |->
        <<Lit(<<"s", "s", "h", "-", "r", "s", "a">>), Rep(Space, 1, -1), Rep(Base64Chars, 32, -1)>>],
      type |-> "SSH Key",
      config |-> [require_entropy |-> FALSE]],
     [pattern |-> [ci |-> TRUE, elems |->
        <<Lit(<<"a", "p", "i">>), Rep(SepChars, 0, 1), Lit(<<"k", "e", "y">>), Rep(SepChars, 0, -1),
          Rep(Space, 0, -1), Rep({"=", ":"}, 1, 1), Rep(Space, 0, -1),
          Rep(Alnum \cup {"_", "-"}, 8, -1)>>],
      type |-> "API Key",
      config |-> [min_length |-> 8, require_entropy |-> TRUE, threshold |-> 4000000]],
     [pattern |-> [ci |-> TRUE, elems |->
        <<Lit(<<"b", "e", "a", "r", "e", "r">>), Rep(Space, 1, -1),
          Rep(Alnum \cup {"_", "-", ".", "="}, 20, -1)>>],
      type |-> "Bearer Token",
      config |-> [min_length |-> 20, require_entropy |-> TRUE, threshold |-> 4000000]],
     [pattern |-> [ci |-> FALSE, elems |-> <<Lit(<<"g", "h", "p", "_">>), Rep(Alnum, 36, 36)>>],
      type |-> "GitHub Personal Access Token",
      config |-> [require_entropy |-> FALSE]],
     [pattern |-> [ci |-> FALSE, elems |-> <<Lit(<<"g", "i", "t", "h", "u", "b", "_", "p", "a", "t", "_">>), Rep(Alnum, 82, 82)>>],
      type |-> "GitHub Fine-grained PAT",
      config |-> [require_entropy |-> FALSE]],
     [pattern |-> [ci |-> FALSE, elems |-> <<Lit(<<"s", "k", "-">>), Rep(Alnum, 48, 48)>>],
      type |-> "OpenAI API Key",
      config |-> [require_entropy |-> FALSE]],
     [pattern |-> [ci |-> FALSE, elems |->
        <<Lit(<<"A", "I", "z", "a">>), Rep(Alnum \cup {"-", "_"}, 35, 35)>>],
      type |-> "Google API Key",
      config |-> [require_entropy |-> FALSE]],
     [pattern |-> [ci |-> FALSE, elems |->
        <<Lit(<<"e", "y", "J">>), Rep(Alnum \cup {"-", "_"}, 10, -1), Lit(<<".">>),
          Rep(Alnum \cup {"-", "_"}, 10, -1), Lit(<<".">>),
          Rep(Alnum \cup {"-", "_"}, 10, -1)>>],
      type |-> "JWT Token",
      config |-> [require_entropy |-> FALSE]],
     [pattern |-> [ci |-> TRUE, elems |->
        <<Lit(<<"p", "a", "s", "s", "w", "o", "r", "d">>), Rep(SepChars, 0, 1), Rep(Space, 0, -1),
          Rep({"=", ":"}, 1, 1), Rep(Space, 0, -1), NotRep(Space, 6, -1)>>],
      type |-> "Password Assignment",
      config |-> [min_length |-> 8, require_entropy |-> TRUE, threshold |-> 4000000]],
     [pattern |-> [ci |-> TRUE, elems |->
        <<Lit(<<"p", "a", "s", "s">>), Rep(SepChars, 0, 1), Rep(Space, 0, -1),
          Rep({"=", ":"}, 1, 1), Rep(Space, 0, -1), NotRep(Space, 6, -1)>>],
      type |-> "Password Assignment",
      config |-> [min_length |-> 8, require_entropy |-> TRUE, threshold |-> 4000000]],
     [pattern |-> [ci |-> TRUE, elems |->
        <<Lit(<<"p", "w", "d">>), Rep(SepChars, 0, 1), Rep(Space, 0, -1),
          Rep({"=", ":"}, 1, 1), Rep(Space, 0, -1), NotRep(Space, 6, -1)>>],
      type |-> "Password Assignment",
      config |-> [min_length |-> 8, require_entropy |-> TRUE, threshold |-> 4000000]],
     [pattern |-> [ci |-> TRUE, elems |->
        <<Alt(<<<<"s", "e", "c", "r", "e", "t">>, <<"t", "o", "k", "e", "n">>, <<"c", "r", "e", "d", "e", "n", "t", "i", "a", "l">>>>), Rep(SepChars, 0, 1),
          Rep(Space, 0, -1), Rep({"=", ":"}, 1, 1), Rep(Space, 0, -1),
          NotRep(Space, 8, -1)>>],
      type |-> "Generic Secret",
      config |-> [min_length |-> 8, require_entropy |-> TRUE, threshold |-> 4000000]],
     [pattern |-> [ci |-> TRUE, elems |->
        <<Alt(<<<<"j", "d", "b", "c">>, <<"m", "o", "n", "g", "o", "d", "b">>, <<"p", "o", "s", "t", "g", "r", "e", "s", "q", "l">>, <<"m", "y", "s", "q", "l">>>>), NotRep({}, 0, -1),
          Lit(<<":", "/", "/">>), NotRep({"/"} \cup Space, 1, -1), Lit(<<":">>),
          NotRep({"/", "@"} \cup Space, 1, -1), Lit(<<"@">>),
          NotRep({"/"} \cup Space, 1, -1)>>],
      type |-> "Database Connection String",
      config |-> [require_entropy |-> FALSE]],
     [pattern |-> [ci |-> TRUE, elems |->
        <<Lit(<<"e", "x", "p", "o", "r", "t">>), Rep(Space, 1, -1), Rep(WordChar, 1, -1), Rep(Space, 0, -1),
          Lit(<<"=">>), Rep(Space, 0, -1), NotRep(Space, 6, -1)>>],
      type |-> "Environment Variable",
      config |-> [min_length |-> 6, check_name |-> TRUE],
      name_group |-> 3] >>

\* config.get(key, default)
ConfigGet(config, key, default) ==
  IF key \in DOMAIN config THEN config[key] ELSE default

Quotes == {"\"", "'"}

\* The grave accent, a character a TLA+ string cannot hold.
Backtick == "grave"

\* var_patterns of scan_line and scan_content; name and value are the
\* elements that form groups 1 and 2.
var_patterns ==
  << [pattern |-> [ci |-> TRUE, elems |->
        <<OptAlt(<<<<"c", "o", "n", "s", "t">>, <<"l", "e", "t">>, <<"v", "a", "r">>, <<"p", "r", "i", "v", "a", "t", "e">>, <<"p", "u", "b", "l", "i", "c">>, <<"p", "r", "o", "t", "e", "c", "t", "e", "d">>>>),
          Rep(Space, 0, -1), Rep(WordChar, 1, -1), Rep(Space, 0, -1),
          Rep({"=", ":"}, 1, 1), Rep(Space, 0, -1), Rep(Quotes, 1, 1),
          NotRep(Quotes, 1, -1), Rep(Quotes, 1, 1)>>],
      name |-> 3, value |-> 8],
     [pattern |-> [ci |-> TRUE, elems |->
        <<Rep(WordChar, 1, -1), Rep(Space, 0, -1), Rep({"=", ":"}, 1, 1),
          Rep(Space, 0, -1), Rep(Quotes, 1, 1), NotRep(Quotes, 1, -1),
          Rep(Quotes, 1, 1)>>],
      name |-> 1, value |-> 6],
     [pattern |-> [ci |-> TRUE, elems |->
        <<Rep(WordChar, 1, -1), Rep(Space, 0, -1), Lit(<<"=">>), Rep(Space, 0, -1),
          Lit(<<"\"", "\"", "\"">>), NotRep({"\""}, 0, -1), Lit(<<"\"", "\"", "\"">>)>>],
      name |-> 1, value |-> 6],
     [pattern |-> [ci |-> TRUE, elems |->
        <<Rep(WordChar, 1, -1), Rep(Space, 0, -1), Lit(<<"=">>), Rep(Space, 0, -1),
          Lit(<<Backtick>>), NotRep({Backtick}, 0, -1), Lit(<<Backtick>>)>>],
      name |-> 1, value |-> 6] >>

-----------------------------------------------------------------------------
(* 4.2 Line Scanner                                                        *)

suspicious_terms ==
  {<<"t", "o", "k", "e", "n">>, <<"s", "e", "c", "r", "e", "t">>, <<"p", "a", "s", "s", "w", "o", "r", "d">>, <<"p", "w", "d">>, <<"p", "a", "s", "s">>, <<"k", "e", "y">>, <<"a", "u", "t", "h">>,
   <<"c", "r", "e", "d", "e", "n", "t", "i", "a", "l">>, <<"a", "p", "i">>, <<"p", "r", "i", "v", "a", "t", "e">>, <<"c", "e", "r", "t">>, <<"s", "s", "h">>}

\* SecretScanner.is_suspicious_env_var
is_suspicious_env_var(name) ==
  \E term \in suspicious_terms : Contains(LowerStr(name), term)

common_values ==
  {<<"t", "r", "u", "e">>, <<"f", "a", "l", "s", "e">>, <<"n", "o", "n", "e">>, <<"n", "u", "l", "l">>, <<"u", "n", "d", "e", "f", "i", "n", "e", "d">>, <<"l", "o", "c", "a", "l", "h", "o", "s", "t">>,
   <<"p", "a", "s", "s", "w", "o", "r", "d">>, <<"u", "s", "e", "r", "n", "a", "m", "e">>, <<"u", "s", "e", "r">>, <<"t", "e", "s", "t">>, <<"e", "x", "a", "m", "p", "l", "e">>, <<"d", "e", "m", "o">>}

\* should_skip_value, were the value compared as it is written.
should_skip_value_cased(value) ==
  IF Len(value) < 6 THEN TRUE ELSE value \in common_values

\* SecretScanner.should_skip_value
should_skip_value(value) ==
  IF Len(value) < 6 THEN TRUE ELSE LowerStr(value) \in common_values

\* One match of a catalog pattern passes the checks of the first pass:
\* skip-value, minimum length, entropy, suspicious name.
CatalogAccepts(entry, m, line) ==
  LET value == Group0(m, line) IN
  /\ ~should_skip_value(value)
  /\ Len(value) >= ConfigGet(entry.config, "min_length", 0)
  /\ (ConfigGet(entry.config, "require_entropy", TRUE)
        => calculate_entropy(value)
             >= ConfigGet(entry.config, "threshold", ENTROPY_THRESHOLDS.default))
  /\ (ConfigGet(entry.config, "check_name", FALSE)
        => is_suspicious_env_var(GroupOf(m, line, entry.name_group)))

\* The secret dict the first pass records for an accepted match; the entropy
\* of a pattern that requires none is None, written -1.
CatalogSecret(entry, m, line) ==
  LET value == Group0(m, line) IN
  [matched_content |-> value,
   type |-> entry.type,
   entropy |-> IF ConfigGet(entry.config, "require_entropy", TRUE)
               THEN calculate_entropy(value) ELSE -1,
   detection_method |-> "pattern_match"]

RECURSIVE FirstAccepted(_, _, _, _)
\* `for match in matches`: the first match from the j-th on that is
\* accepted, as a sequence of at most one secret.
FirstAccepted(entry, ms, j, line) ==
  IF j > Len(ms) THEN <<>>
  ELSE IF CatalogAccepts(entry, ms[j], line) THEN <<CatalogSecret(entry, ms[j], line)>>
  ELSE FirstAccepted(entry, ms, j + 1, line)

RECURSIVE CatalogPassLast(_, _)
\* The first pass, were the loop over the patterns to go on after an accepted
\* match and keep the one of the last pattern that has one.
CatalogPassLast(line, patterns) ==
  IF patterns = <<>> THEN <<>>
  ELSE LET entry == Head(patterns)
           later == CatalogPassLast(line, Tail(patterns))
       IN IF later # <<>> THEN later
          ELSE FirstAccepted(entry, FindIter(entry.pattern, line, 1), 1, line)

RECURSIVE CatalogPass(_, _)
\* `for pattern, secret_type, config in patterns`: the first accepted match
\* of the first pattern that has one.
CatalogPass(line, patterns) ==
  IF patterns = <<>> THEN <<>>
  ELSE LET entry == Head(patterns)
           r == FirstAccepted(entry, FindIter(entry.pattern, line, 1), 1, line)
       IN IF r # <<>> THEN r ELSE CatalogPass(line, Tail(patterns))

\* One match of a variable pattern passes the checks of the second pass.
VarAccepts(vp, m, line) ==
  LET var_name == GroupOf(m, line, vp.name)
      value == GroupOf(m, line, vp.value)
      threshold == IF Contains(LowerStr(var_name), <<"p", "a", "s", "s", "w", "o", "r", "d">>)
                   THEN ENTROPY_THRESHOLDS.password ELSE ENTROPY_THRESHOLDS.default
  IN /\ ~should_skip_value(value)
     /\ is_suspicious_env_var(var_name)
     /\ calculate_entropy(value) >= threshold

VarSecret(vp, m, line) ==
  LET value == GroupOf(m, line, vp.value) IN
  [matched_content |-> value,
   type |-> "Variable Assignment",
   variable_name |-> GroupOf(m, line, vp.name),
   entropy |-> calculate_entropy(value),
   detection_method |-> "variable_scan"]

RECURSIVE FirstVarAccepted(_, _, _, _)
FirstVarAccepted(vp, ms, j, line) ==
  IF j > Len(ms) THEN <<>>
  ELSE IF VarAccepts(vp, ms[j], line) THEN <<VarSecret(vp, ms[j], line)>>
  ELSE FirstVarAccepted(vp, ms, j + 1, line)

RECURSIVE VarPass(_, _)
\* `for pattern in var_patterns`, patterns being those still to try.
VarPass(line, patterns) ==
  IF patterns = <<>> THEN <<>>
  ELSE LET vp == Head(patterns)
           r == FirstVarAccepted(vp, FindIter(vp.pattern, line, 1), 1, line)
       IN IF r # <<>> THEN r ELSE VarPass(line, Tail(patterns))

\* `value = match.group(0)` of every match of every catalog pattern in line.
CatalogCandidates(line) ==
  UNION {LET ms == FindIter(PATTERNS[i].pattern, line, 1)
         IN {Group0(ms[j], line) : j \in DOMAIN ms} : i \in DOMAIN PATTERNS}

\* `var_name, value = match.groups()`: the value of every match of every
\* variable pattern in line.
VarCandidates(line) ==
  UNION {LET vp == var_patterns[i]
             ms == FindIter(vp.pattern, line, 1)
         IN {GroupOf(ms[j], line, vp.value) : j \in DOMAIN ms} :
           i \in DOMAIN var_patterns}

\* The two passes on one line: at most one secret, without its place.
LineSecret(line) ==
  LET first == CatalogPass(line, PATTERNS)
  IN IF first # <<>> THEN first ELSE VarPass(line, var_patterns)

-----------------------------------------------------------------------------
(* 4.5 Exclusion Engine                                                    *)

\* default_exclusions of create_default_exclusions: the exclusions file
\* load_exclusions reads when the user has written none.
default_exclusions ==
  [file_extensions |->
     <<<<"*", ".", "j", "a", "r">>, <<"*", ".", "w", "a", "r">>, <<"*", ".", "e", "a", "r">>, <<"*", ".", "p", "y", "c">>, <<"*", ".", "c", "l", "a", "s", "s">>,
       <<"*", ".", "l", "o", "g">>, <<"*", ".", "t", "m", "p">>, <<"*", ".", "D", "S", "_", "S", "t", "o", "r", "e">>, <<"*", ".", "p", "d", "f">>,
       <<"*", ".", "p", "n", "g">>, <<"*", ".", "j", "p", "g">>, <<"*", ".", "j", "p", "e", "g">>, <<"*", ".", "g", "i", "f">>,
       <<"*", ".", "x", "l", "s", "x">>, <<"*", ".", "x", "l", "s", "b">>, <<"*", ".", "x", "l", "s">>, <<"*", ".", "c", "s", "v">>,
       <<"*", "*", "/", "*", "t", "e", "s", "t", "*", ".", "*">>, <<"*", "*", "/", "*", "T", "e", "s", "t", "*", ".", "*">>>>,
   directories |->
     <<<<"*", "*", "/", "n", "o", "d", "e", "_", "m", "o", "d", "u", "l", "e", "s", "/", "*", "*">>, <<"*", "*", "/", "d", "i", "s", "t", "/", "*", "*">>, <<"*", "*", "/", "b", "u", "i", "l", "d", "/", "*", "*">>,
       <<"*", "*", "/", "t", "a", "r", "g", "e", "t", "/", "*", "*">>, <<"*", "*", "/", ".", "g", "i", "t", "/", "*", "*">>, <<"*", "*", "/", "t", "e", "s", "t", "/", "*", "*">>, <<"*", "*", "/", "t", "e", "s", "t", "s", "/", "*", "*">>,
       <<"*", "*", "/", "T", "e", "s", "t", "/", "*", "*">>, <<"*", "*", "/", "T", "e", "s", "t", "s", "/", "*", "*">>, <<"*", "*", "/", "*", "t", "e", "s", "t", "*", "/", "*", "*">>, <<"*", "*", "/", "*", "T", "e", "s", "t", "*", "/", "*", "*">>>>,
   additional_exclusions |-> <<>>]

\* scan_config.load_exclusions
load_exclusions == default_exclusions

\* scan_config.get_exclusion_patterns
get_exclusion_patterns ==
  load_exclusions.file_extensions \o load_exclusions.directories
    \o load_exclusions.additional_exclusions

RECURSIVE GlobFrom(_, _, _, _)
\* fnmatch.fnmatch(name, pat) for patterns made of *, ? and plain
\* characters: pat from i on matches name from j on (* also matches "/").
GlobFrom(pat, i, name, j) ==
  IF i > Len(pat) THEN j > Len(name)
  ELSE IF pat[i] = "*"
       THEN GlobFrom(pat, i + 1, name, j)
            \/ (j <= Len(name) /\ GlobFrom(pat, i, name, j + 1))
  ELSE IF pat[i] = "?"
       THEN j <= Len(name) /\ GlobFrom(pat, i + 1, name, j + 1)
  ELSE j <= Len(name) /\ name[j] = pat[i] /\ GlobFrom(pat, i + 1, name, j + 1)

fnmatch(name, pat) == GlobFrom(pat, 1, name, 1)

\* str.rfind(c) for one character, 1-based; 0 when c does not occur.
RFind(s, c) ==
  IF \E i \in 1..Len(s) : s[i] = c
  THEN CHOOSE i \in 1..Len(s) : s[i] = c /\ \A j \in (i + 1)..Len(s) : s[j] # c
  ELSE 0

\* str.find(sub), 1-based; 0 when sub does not occur.
Find(s, sub) ==
  IF Contains(s, sub)
  THEN CHOOSE p \in 1..Len(s) : OccursAt(sub, s, p) /\ \A q \in 1..(p - 1) : ~OccursAt(sub, s, q)
  ELSE 0

\* os.path.splitext(p)[1]: from the last dot of the last path component on,
\* unless only dots stand before it in that component.
splitext_ext(p) ==
  LET sepIndex == RFind(p, "/")
      dotIndex == RFind(p, ".")
  IN IF dotIndex > sepIndex
        /\ \E k \in (sepIndex + 1)..(dotIndex - 1) : p[k] # "."
     THEN SubSeq(p, dotIndex, Len(p))
     ELSE <<>>

\* os.path.basename
basename(p) == Drop(p, RFind(p, "/"))

RECURSIVE RemoveAll(_, _)
\* str.replace(sub, '')
RemoveAll(s, sub) ==
  IF sub = <<>> \/ ~Contains(s, sub) THEN s
  ELSE LET p == Find(s, sub)
       IN Take(s, p - 1) \o RemoveAll(Drop(s, p + Len(sub) - 1), sub)

\* The extension _load_exclusions takes from one file_extensions pattern
\* (a sequence of none or one).
LoadedExtension(ext_pattern) ==
  IF StartsWith(ext_pattern, <<"*", ".">>) THEN <<Drop(ext_pattern, 2)>>
  ELSE IF StartsWith(ext_pattern, <<"*">>) THEN <<Drop(ext_pattern, 1)>>
  ELSE <<>>

\* The directory name _load_exclusions takes from one directories pattern.
LoadedDirectory(dir_pattern) ==
  LET unstar(d) == IF StartsWith(d, <<"*", "*", "/">>) THEN Drop(d, 3) ELSE d IN
  IF Contains(dir_pattern, <<"/", "*", "*">>)
  THEN <<unstar(Take(dir_pattern, Find(dir_pattern, <<"/", "*", "*">>) - 1))>>
  ELSE IF EndsWith(dir_pattern, <<"/">>)
  THEN <<unstar(Take(dir_pattern, Len(dir_pattern) - 1))>>
  ELSE LET parts == RemoveAll(RemoveAll(dir_pattern, <<"*", "*", "/">>), <<"/">>)
       IN IF parts # <<>> THEN <<parts>> ELSE <<>>

\* config._load_exclusions: (extensions, directories)
_load_exclusions ==
  [extensions |->
     UNION {Range(LoadedExtension(load_exclusions.file_extensions[i])) :
              i \in 1..Len(load_exclusions.file_extensions)},
   directories |->
     UNION {Range(LoadedDirectory(load_exclusions.directories[i])) :
              i \in 1..Len(load_exclusions.directories)}]

EXCLUDED_EXTENSIONS_DEFAULT ==
  {<<"z", "i", "p">>, <<"g", "z">>, <<"t", "a", "r">>, <<"r", "a", "r">>, <<"7", "z">>, <<"e", "x", "e">>, <<"d", "l", "l">>, <<"s", "o">>, <<"d", "y", "l", "i", "b">>,
   <<"j", "a", "r">>, <<"w", "a", "r">>, <<"e", "a", "r">>, <<"c", "l", "a", "s", "s">>, <<"p", "y", "c">>, <<"o">>, <<"a">>, <<"l", "i", "b">>, <<"o", "b", "j">>,
   <<"b", "i", "n">>, <<"j", "p", "g">>, <<"j", "p", "e", "g">>, <<"p", "n", "g">>, <<"g", "i", "f">>, <<"b", "m", "p">>, <<"i", "c", "o">>, <<"m", "p", "3">>, <<"m", "p", "4">>,
   <<"a", "v", "i">>, <<"m", "o", "v">>, <<"w", "m", "v">>, <<"f", "l", "v">>, <<"p", "d", "f">>, <<"d", "o", "c">>, <<"d", "o", "c", "x">>, <<"x", "l", "s">>, <<"x", "l", "s", "x">>,
   <<"p", "p", "t">>, <<"p", "p", "t", "x">>, <<"t", "t", "f">>, <<"o", "t", "f">>, <<"w", "o", "f", "f">>, <<"w", "o", "f", "f", "2">>, <<"e", "o", "t">>, <<"s", "v", "g">>,
   <<"t", "i", "f">>, <<"t", "i", "f", "f">>, <<"w", "e", "b", "p">>,
   <<"x", "l", "s", "b">>, <<"c", "s", "v">>, <<"t", "s", "v">>, <<"j", "s", "o", "n">>, <<"x", "m", "l">>, <<"y", "a", "m", "l">>, <<"y", "m", "l">>,
   <<"p", "a", "r", "q", "u", "e", "t">>, <<"a", "v", "r", "o">>, <<"o", "r", "c">>}

EXCLUDED_DIRECTORIES_DEFAULT ==
  {<<"d", "i", "s", "t", "r", "i", "b", "u", "t", "i", "o", "n">>, <<"n", "o", "d", "e", "_", "m", "o", "d", "u", "l", "e", "s">>, <<"v", "e", "n", "d", "o", "r">>, <<"b", "u", "i", "l", "d">>, <<"d", "i", "s", "t">>,
   <<"r", "e", "p", "o", "r", "t", "s">>, <<"s", "c", "a", "n", "_", "r", "e", "s", "u", "l", "t", "s">>, <<"_", "_", "p", "y", "c", "a", "c", "h", "e", "_", "_">>, <<".", "g", "i", "t">>,
   <<"t", "e", "s", "t">>, <<"t", "e", "s", "t", "s">>, <<"T", "e", "s", "t">>, <<"T", "e", "s", "t", "s">>}

\* EXCLUDED_EXTENSIONS of hooks/commit_scripts/config.py
EXCLUDED_EXTENSIONS == EXCLUDED_EXTENSIONS_DEFAULT \cup _load_exclusions.extensions

\* EXCLUDED_DIRECTORIES of hooks/commit_scripts/config.py
EXCLUDED_DIRECTORIES == EXCLUDED_DIRECTORIES_DEFAULT \cup _load_exclusions.directories

\* config.should_exclude_file
should_exclude_file(file_path) ==
  LET ext == splitext_ext(file_path)
      path_parts == Split(file_path, "/")
      file_name == basename(file_path)
  IN \/ \E i \in 1..Len(get_exclusion_patterns) :
          fnmatch(file_path, get_exclusion_patterns[i])
     \/ (ext # <<>> /\ LStripChars(LowerStr(ext), {"."}) \in EXCLUDED_EXTENSIONS)
     \/ \E excluded_dir \in EXCLUDED_DIRECTORIES : excluded_dir \in Range(path_parts)
     \/ Contains(LowerStr(file_name), <<"t", "e", "s", "t">>)

\* EXCLUDED_EXTENSIONS of secretgenie/commit_scripts/config.py
GENIE_EXCLUDED_EXTENSIONS ==
  {<<"z", "i", "p">>, <<"g", "z">>, <<"t", "a", "r">>, <<"r", "a", "r">>, <<"7", "z">>, <<"e", "x", "e">>, <<"d", "l", "l">>, <<"s", "o">>, <<"d", "y", "l", "i", "b">>,
   <<"j", "a", "r">>, <<"w", "a", "r">>, <<"e", "a", "r">>, <<"c", "l", "a", "s", "s">>, <<"p", "y", "c">>, <<"o">>, <<"a">>, <<"l", "i", "b">>, <<"o", "b", "j">>,
   <<"b", "i", "n">>, <<"j", "p", "g">>, <<"j", "p", "e", "g">>, <<"p", "n", "g">>, <<"g", "i", "f">>, <<"b", "m", "p">>, <<"i", "c", "o">>, <<"m", "p", "3">>, <<"m", "p", "4">>,
   <<"a", "v", "i">>, <<"m", "o", "v">>, <<"w", "m", "v">>, <<"f", "l", "v">>, <<"p", "d", "f">>, <<"d", "o", "c">>, <<"d", "o", "c", "x">>, <<"x", "l", "s">>, <<"x", "l", "s", "x">>,
   <<"p", "p", "t">>, <<"p", "p", "t", "x">>, <<"t", "t", "f">>, <<"o", "t", "f">>, <<"w", "o", "f", "f">>, <<"w", "o", "f", "f", "2">>, <<"e", "o", "t">>, <<"s", "v", "g">>,
   <<"t", "i", "f">>, <<"t", "i", "f", "f">>, <<"w", "e", "b", "p">>}

\* EXCLUDED_DIRECTORIES of secretgenie/commit_scripts/config.py
GENIE_EXCLUDED_DIRECTORIES ==
  {<<"d", "i", "s", "t", "r", "i", "b", "u", "t", "i", "o", "n">>, <<"n", "o", "d", "e", "_", "m", "o", "d", "u", "l", "e", "s">>, <<"v", "e", "n", "d", "o", "r">>, <<"b", "u", "i", "l", "d">>, <<"d", "i", "s", "t">>,
   <<"r", "e", "p", "o", "r", "t", "s">>, <<"s", "c", "a", "n", "_", "r", "e", "s", "u", "l", "t", "s">>, <<"_", "_", "p", "y", "c", "a", "c", "h", "e", "_", "_">>, <<".", "g", "i", "t">>}

\* The filter of the secretgenie variant's scan_repository: the file is
\* dropped from the list of tracked files.
GenieExcludes(f) ==
  \/ \E ext \in GENIE_EXCLUDED_EXTENSIONS : EndsWith(f, ext)
  \/ \E d \in GENIE_EXCLUDED_DIRECTORIES : d \in Range(Split(f, "/"))

-----------------------------------------------------------------------------
(* 4.3 Diff Extractor                                                      *)

None == [some |-> FALSE]

Some(v) == [some |-> TRUE, v |-> v]

DigitSeq == <<"0", "1", "2", "3", "4", "5", "6", "7", "8", "9">>

DigitVal(c) == (CHOOSE i \in 1..Len(DigitSeq) : DigitSeq[i] = c) - 1

RECURSIVE ParseInt(_, _, _)
\* int() of the run of decimal digits of s that starts at position p,
\* acc being the value of the digits read so far.
ParseInt(s, p, acc) ==
  IF p > Len(s) \/ s[p] \notin Digit THEN acc
  ELSE ParseInt(s, p + 1, acc * 10 + DigitVal(s[p]))

\* re.search(r'\+(\d+)', line): the number after the first "+" that a digit
\* follows, or None.
HunkStart(line) ==
  LET hits == {p \in 1..(Len(line) - 1) : line[p] = "+" /\ line[p + 1] \in Digit}
  IN IF hits = {} THEN None
     ELSE LET p == CHOOSE q \in hits : \A r \in hits : q <= r
          IN Some(ParseInt(line, p + 1, 0))

\* One iteration of the loop of get_git_diff (hooks and secretgenie utils
\* hold the same code) on the parser state
\* [file_changes, current_file, current_line_number].
DiffStep(st, line) ==
  IF StartsWith(line, <<"d", "i", "f", "f", " ", "-", "-", "g", "i", "t">>) THEN [st EXCEPT !.current_file = None]
  ELSE IF StartsWith(line, <<"+", "+", "+", " ", "b", "/">>)
  THEN LET f == Drop(line, 6) IN
       [st EXCEPT !.current_file = Some(f),
                  !.file_changes = [g \in DOMAIN st.file_changes \cup {f} |->
                                      IF g = f THEN <<>> ELSE st.file_changes[g]]]
  ELSE IF StartsWith(line, <<"@", "@">>)
  THEN LET m == HunkStart(line) IN
       IF m.some THEN [st EXCEPT !.current_line_number = Some(m.v - 1)] ELSE st
  ELSE IF /\ st.current_file.some
          /\ st.current_file.v # <<>>
          /\ StartsWith(line, <<"+">>)
          /\ ~StartsWith(line, <<"+", "+", "+">>)
  THEN IF st.current_line_number.some
       THEN LET f == st.current_file.v
                n == st.current_line_number.v
            IN [st EXCEPT !.file_changes[f] = Append(@, <<n, Strip(Drop(line, 1))>>),
                          !.current_line_number = Some(n + 1)]
       ELSE st
  ELSE st

RECURSIVE DiffFold(_, _, _)
DiffFold(st, lines, i) ==
  IF i > Len(lines) THEN st ELSE DiffFold(DiffStep(st, lines[i]), lines, i + 1)

\* utils.get_git_diff on the lines `git diff --unified=0 --no-color` printed:
\* the Changed-Lines Map, a function from file paths to sequences of
\* <<line number, content>>.
get_git_diff(diff_output) ==
  DiffFold([file_changes |-> <<>>, current_file |-> None,
            current_line_number |-> None], diff_output, 1).file_changes

-----------------------------------------------------------------------------
(* 4.4 Secret Scanner (hooks/commit_scripts/secretscan.py)                 *)
(*                                                                         *)
(* A session is [found_secrets, seen]: the two fields of a SecretScanner.  *)
(* An operation on a session yields [s, ret]: the session after the call   *)
(* and the value the call returned. Where a result is used more than once  *)
(* it is bound as the element of a singleton, `\E r \in {e}` or             *)
(* `{... : r \in {e}}`, so that it is computed once.                        *)

\* The element of a singleton.
The(S) == CHOOSE x \in S : TRUE

\* The repository the scanner runs in: what `git ls-files` prints, what
\* `git diff --cached --name-only` prints, and the lines of every file.
F_x == <<"x", ".", "p", "y">>

F_app == <<"s", "r", "c", "/", "a", "p", "p", ".", "p", "y">>

F_test == <<"s", "r", "c", "/", "t", "e", "s", "t", "_", "u", "t", "i", "l", ".", "p", "y">>

F_env == <<"c", "f", "g", "/", "e", "n", "v", ".", "s", "h">>

L_akia == <<"A", "K", "I", "A", "1", "2", "3", "4", "5", "6", "7", "8", "9", "0", "A", "B", "C", "D", "E", "F">>

L_two == <<"p", "w", "d", "=", "a", "B", "3", "d", "E", "5", "g", "H", "7", "j", "K", "9", "m", "N", "1", "p", "Q", "2", "r", "S", " ", "t", "o", "k", "e", "n", "=", "z", "Y", "8", "x", "W", "7", "v", "U", "6", "t", "S", "5", "r", "Q", "4", "p", "O", "3", "n", "M">>

L_var == <<"c", "o", "n", "s", "t", " ", "a", "u", "t", "h", "K", "e", "y", " ", "=", " ", "'", "Z", "x", "8", "C", "v", "7", "B", "n", "6", "M", "q", "5", "W", "l", "4", "K", "j", "3", "H", "g", "'">>

L_export == <<"e", "x", "p", "o", "r", "t", " ", "A", "P", "I", "_", "T", "O", "K", "E", "N", "=", "a", "B", "3", "d", "E", "5", "g", "H", "7", "j", "K", "9", "m", "N", "1", "p", "Q", "2", "r", "S">>

L_plain == <<"x", " ", "=", " ", "1">>

L_blank == <<" ", " ">>

L_import == <<"i", "m", "p", "o", "r", "t", " ", "o", "s">>

L_stop == <<"a", "u", "t", "h", "_", "k", "e", "y", " ", "=", " ", "\"", "L", "o", "c", "a", "l", "H", "o", "s", "t", "\"">>

L_short == <<"t", "o", "k", "e", "n", " ", "=", " ", "'", "a", "B", "3", "$", "x", "'">>

TrackedFiles == <<F_x, F_app, F_test, F_env>>

StagedFiles == <<F_app>>

FileLines(f) ==
  CASE f = F_x -> <<L_import, L_blank, L_akia>>
    [] f = F_app -> <<L_two, L_plain, L_var>>
    [] f = F_test -> <<L_export>>
    [] f = F_env -> <<L_export>>
    [] OTHER -> <<>>

\* Every line the scanner meets in this repository.
LinePool == {L_akia, L_two, L_var, L_export, L_plain, L_blank, L_import, L_stop, L_short}

\* LineSecret and should_exclude_file are pure: their values on the lines
\* and the paths of this repository are computed once.
SecretTable == [line \in LinePool |-> LineSecret(line)]

LineSecretOf(line) == SecretTable[line]

\* The candidate values of the two passes on each line.
CandidateTable ==
  [line \in LinePool |-> CatalogCandidates(line) \cup VarCandidates(line)]

ExcludeTable == [f \in Range(TrackedFiles) |-> should_exclude_file(f)]

ShouldExclude(f) == ExcludeTable[f]

\* SecretScanner.__init__
NewSession == [found_secrets |-> <<>>, seen |-> {}]

\* The Finding recorded for a secret found at a place.
Secret(file_path, line_number, line, secret) ==
  [file_path |-> file_path, line_number |-> line_number, line |-> line] @@ secret

\* scan_line without its test of _seen_file_lines.
scan_line_unseen(s, file_path, line_number, line) ==
  IF ShouldExclude(file_path) THEN s
  ELSE The({IF r = <<>> THEN s
            ELSE [found_secrets |-> Append(s.found_secrets,
                                           Secret(file_path, line_number, line, r[1])),
                  seen |-> s.seen \cup {<<file_path, line_number>>}] :
              r \in {LineSecretOf(line)}})

\* SecretScanner.scan_line: the session after the call.
scan_line(s, file_path, line_number, line) ==
  IF <<file_path, line_number>> \in s.seen THEN s
  ELSE IF ShouldExclude(file_path) THEN s
  ELSE The({IF r = <<>> THEN s
            ELSE [found_secrets |-> Append(s.found_secrets,
                                           Secret(file_path, line_number, line, r[1])),
                  seen |-> s.seen \cup {<<file_path, line_number>>}] :
              r \in {LineSecretOf(line)}})

RECURSIVE ScanContentFrom(_, _, _, _, _)
\* The loop of scan_content from line line_num on: [seen, content_secrets].
ScanContentFrom(seen, content_secrets, lines, file_path, line_num) ==
  IF line_num > Len(lines) THEN [seen |-> seen, content_secrets |-> content_secrets]
  ELSE LET line == lines[line_num] IN
       IF Strip(line) = <<>>
       THEN ScanContentFrom(seen, content_secrets, lines, file_path, line_num + 1)
       ELSE IF <<file_path, line_num>> \in seen
       THEN ScanContentFrom(seen, content_secrets, lines, file_path, line_num + 1)
       ELSE The({IF r = <<>>
                 THEN ScanContentFrom(seen, content_secrets, lines, file_path,
                                      line_num + 1)
                 ELSE ScanContentFrom(seen \cup {<<file_path, line_num>>},
                                      Append(content_secrets,
                                             Secret(file_path, line_num, line, r[1])),
                                      lines, file_path, line_num + 1) :
                   r \in {LineSecretOf(line)}})

\* SecretScanner.scan_content: the secrets go to a local list, only the
\* seen set of the session changes.
scan_content(s, lines, file_path) ==
  The({[s |-> [s EXCEPT !.seen = r.seen], ret |-> r.content_secrets] :
         r \in {ScanContentFrom(s.seen, <<>>, lines, file_path, 1)}})

\* SecretScanner.scan_file; bad is the set of files whose read raises.
scan_file(s, file_path, bad) ==
  IF ShouldExclude(file_path) THEN [s |-> s, ret |-> <<>>]
  ELSE IF file_path \in bad THEN [s |-> s, ret |-> <<>>]
  ELSE scan_content(s, FileLines(file_path), file_path)

\* [f for f in files if not ShouldExclude(f)]
RECURSIVE FilterFiles(_)
FilterFiles(files) ==
  IF files = <<>> THEN <<>>
  ELSE IF ShouldExclude(Head(files)) THEN FilterFiles(Tail(files))
  ELSE <<Head(files)>> \o FilterFiles(Tail(files))

RECURSIVE ScanEachAbort(_, _, _)
\* The loop over the files, were a failing read to end it: the files after
\* the one that cannot be read are not scanned.
ScanEachAbort(s, files, bad) ==
  IF files = <<>> \/ Head(files) \in bad THEN s
  ELSE The({ScanEachAbort(t, Tail(files), bad) :
              t \in {[r.s EXCEPT !.found_secrets = @ \o r.ret] :
                        r \in {scan_file(s, Head(files), bad)}}})

RECURSIVE ScanEach(_, _, _)
\* `for file_path in filtered_files: found_secrets.extend(scan_file(file_path))`
ScanEach(s, files, bad) ==
  IF files = <<>> THEN s
  ELSE The({ScanEach(t, Tail(files), bad) :
              t \in {[r.s EXCEPT !.found_secrets = @ \o r.ret] :
                        r \in {scan_file(s, Head(files), bad)}}})

\* SecretScanner.scan_files
scan_files(s, files_list, bad) ==
  IF files_list = <<>> THEN [s |-> s, ret |-> <<>>]
  ELSE The({[s |-> t, ret |-> t.found_secrets] :
              t \in {ScanEach(s, FilterFiles(files_list), bad)}})

\* SecretScanner.scan_files_to_push; git_ok tells whether
\* `git diff --cached --name-only`, run when no list is given, succeeds.
scan_files_to_push(s, files_list, bad, git_ok) ==
  IF files_list = <<>> /\ ~git_ok THEN [s |-> s, ret |-> <<>>]
  ELSE LET files_to_push == IF files_list = <<>> THEN StagedFiles ELSE files_list
       IN The({[s |-> t, ret |-> t.found_secrets] :
                 t \in {ScanEach(s, FilterFiles(files_to_push), bad)}})

\* SecretScanner.scan_repository; git_ok tells whether `git ls-files` succeeds.
scan_repository(s, bad, git_ok) ==
  IF ~git_ok THEN [s |-> s, ret |-> <<>>]
  ELSE The({[s |-> t, ret |-> t.found_secrets] :
              t \in {ScanEach(s, FilterFiles(TrackedFiles), bad)}})

RECURSIVE ScanPairs(_, _, _)
\* `for line_number, line_content in changed_lines[file_path]: scan_line(...)`
ScanPairs(s, file_path, pairs) ==
  IF pairs = <<>> THEN s
  ELSE The({ScanPairs(t, file_path, Tail(pairs)) :
              t \in {scan_line(s, file_path, Head(pairs)[1], Head(pairs)[2])}})

RECURSIVE ScanChanged(_, _, _, _)
\* The loop of scan_changed_lines over the files the filter kept.
ScanChanged(s, files, changed_lines, bad) ==
  IF files = <<>> THEN s
  ELSE LET file_path == Head(files) IN
       IF file_path \in DOMAIN changed_lines
       THEN The({ScanChanged(t, Tail(files), changed_lines, bad) :
                   t \in {ScanPairs(s, file_path, changed_lines[file_path])}})
       ELSE The({ScanChanged(t, Tail(files), changed_lines, bad) :
                   t \in {[r.s EXCEPT !.found_secrets = @ \o r.ret] :
                             r \in {scan_file(s, file_path, bad)}}})

\* scan_changed_lines that scans every file in full whatever the map holds.
scan_changed_lines_full(s, files_list, changed_lines, bad) ==
  scan_files(s, files_list, bad)

\* SecretScanner.scan_changed_lines; changed_lines is what get_git_diff()
\* returned.
scan_changed_lines(s, files_list, changed_lines, bad) ==
  IF files_list = <<>> THEN [s |-> s, ret |-> <<>>]
  ELSE IF DOMAIN changed_lines = {} THEN scan_files(s, files_list, bad)
  ELSE The({[s |-> t, ret |-> t.found_secrets] :
              t \in {ScanChanged(s, FilterFiles(files_list), changed_lines, bad)}})

\* What `git diff --unified=0 --no-color` may print in this repository:
\* nothing, a change of src/app.py, a change of x.py and of a file that is
\* not on any list.
D_none == <<>>

D_app ==
  <<<<"d", "i", "f", "f", " ", "-", "-", "g", "i", "t", " ", "a", "/", "s", "r", "c", "/", "a", "p", "p", ".", "p", "y", " ", "b", "/", "s", "r", "c", "/", "a", "p", "p", ".", "p", "y">>,
    <<"-", "-", "-", " ", "a", "/", "s", "r", "c", "/", "a", "p", "p", ".", "p", "y">>,
    <<"+", "+", "+", " ", "b", "/", "s", "r", "c", "/", "a", "p", "p", ".", "p", "y">>,
    <<"@", "@", " ", "-", "2", ",", "0", " ", "+", "3", ",", "2", " ", "@", "@">>,
    <<"+", "x", " ", "=", " ", "1">>,
    <<"+", "c", "o", "n", "s", "t", " ", "a", "u", "t", "h", "K", "e", "y", " ", "=", " ", "'", "Z", "x", "8", "C", "v", "7", "B", "n", "6", "M", "q", "5", "W", "l", "4", "K", "j", "3", "H", "g", "'">>>>

D_x ==
  <<<<"d", "i", "f", "f", " ", "-", "-", "g", "i", "t", " ", "a", "/", "x", ".", "p", "y", " ", "b", "/", "x", ".", "p", "y">>,
    <<"+", "+", "+", " ", "b", "/", "x", ".", "p", "y">>,
    <<"@", "@", " ", "-", "3", " ", "+", "3", " ", "@", "@">>,
    <<"+", "A", "K", "I", "A", "1", "2", "3", "4", "5", "6", "7", "8", "9", "0", "A", "B", "C", "D", "E", "F">>,
    <<"d", "i", "f", "f", " ", "-", "-", "g", "i", "t", " ", "a", "/", "s", "r", "c", "/", "t", "e", "s", "t", "_", "u", "t", "i", "l", ".", "p", "y", " ", "b", "/", "s", "r", "c", "/", "t", "e", "s", "t", "_", "u", "t", "i", "l", ".", "p", "y">>,
    <<"+", "+", "+", " ", "b", "/", "s", "r", "c", "/", "t", "e", "s", "t", "_", "u", "t", "i", "l", ".", "p", "y">>,
    <<"@", "@", " ", "-", "0", ",", "0", " ", "+", "1", " ", "@", "@">>,
    <<"+", "e", "x", "p", "o", "r", "t", " ", "A", "P", "I", "_", "T", "O", "K", "E", "N", "=", "a", "B", "3", "d", "E", "5", "g", "H", "7", "j", "K", "9", "m", "N", "1", "p", "Q", "2", "r", "S">>>>

DiffPool == {D_none, D_app, D_x}

\* get_git_diff is pure: its value on each of these is computed once.
DiffTable == [d \in DiffPool |-> get_git_diff(d)]

\* The file lists the callers hand to the scanner.
ListPool ==
  {<<>>, <<F_app>>, <<F_x, F_env>>, <<F_app, F_test, F_app>>}

\* The contents scan_content is called with: those of the files, and one
\* that differs from what the file holds.
ContentPool == {FileLines(f) : f \in Range(TrackedFiles)} \cup {<<L_var, L_akia, L_two>>}

\* The lines scan_line is called with.
ScanLinePool == {L_akia, L_two, L_var, L_stop, L_short}

\* The longest file has MaxLineNo lines.
MaxLineNo == 3

\* One scanner instance serves at most MaxCalls calls.
MaxCalls == 2

Session == [found_secrets |-> found_secrets, seen |-> seen_file_lines]

\* The effect of one call on the instance: the session after it, the value
\* it returned, and the record of the call.
Called(s, ret, call) ==
  /\ found_secrets' = s.found_secrets
  /\ seen_file_lines' = s.seen
  /\ returned' = ret
  /\ lastCall' = call @@ [fresh |-> calls = 0, bad |-> unreadable]
  /\ calls' = calls + 1
  /\ UNCHANGED <<unreadable, diffVars, metaVars, exclVars, pushVars, entVars, apiVars, genieVars>>

ScanLine(file_path, line_number, line) ==
  /\ calls < MaxCalls
  /\ \E s \in {scan_line(Session, file_path, line_number, line)} :
       Called(s, None, [op |-> "scan_line", file_path |-> file_path,
                        line_number |-> line_number, line |-> line])

ScanContent(lines, file_path) ==
  /\ calls < MaxCalls
  /\ \E r \in {scan_content(Session, lines, file_path)} :
        Called(r.s, r.ret, [op |-> "scan_content", file_path |-> file_path, lines |-> lines])

ScanFile(file_path) ==
  /\ calls < MaxCalls
  /\ \E r \in {scan_file(Session, file_path, unreadable)} :
        Called(r.s, r.ret, [op |-> "scan_file", file_path |-> file_path])

ScanFiles(files_list) ==
  /\ calls < MaxCalls
  /\ \E r \in {scan_files(Session, files_list, unreadable)} :
        Called(r.s, r.ret, [op |-> "scan_files", files |-> files_list])

ScanFilesToPush(files_list, git_ok) ==
  /\ calls < MaxCalls
  /\ \E r \in {scan_files_to_push(Session, files_list, unreadable, git_ok)} :
        Called(r.s, r.ret,
               [op |-> "scan_files_to_push",
                files |-> IF files_list = <<>>
                          THEN (IF git_ok THEN StagedFiles ELSE <<>>)
                          ELSE files_list])

ScanRepository(git_ok) ==
  /\ calls < MaxCalls
  /\ \E r \in {scan_repository(Session, unreadable, git_ok)} :
        Called(r.s, r.ret,
               [op |-> "scan_repository",
                files |-> IF git_ok THEN TrackedFiles ELSE <<>>])

ScanChangedLines(files_list, d) ==
  /\ calls < MaxCalls
  /\ \E r \in {scan_changed_lines(Session, files_list, DiffTable[d], unreadable)} :
        Called(r.s, r.ret,
               [op |-> "scan_changed_lines", files |-> files_list,
                changed_lines |-> DiffTable[d]])

\* main(): a new SecretScanner, scan_repository(), and with --diff also
\* scan_files_to_push(); both results go to the report.
Main(diff_flag, git_ok) ==
  /\ calls = 0
  /\ \E repo \in {scan_repository(NewSession, unreadable, git_ok)} :
       \E diff \in {IF diff_flag
                     THEN scan_files_to_push(repo.s, <<>>, unreadable, git_ok)
                     ELSE [s |-> repo.s, ret |-> <<>>]} :
         Called(diff.s, None,
                [op |-> "main", diff_flag |-> diff_flag,
                 repo_results |-> repo.ret, diff_results |-> diff.ret])

ScanInit ==
  /\ found_secrets = NewSession.found_secrets
  /\ seen_file_lines = NewSession.seen
  /\ returned = None
  /\ lastCall = [op |-> "init"]
  /\ calls = 0
  /\ unreadable \in {{}, {F_env}, {F_app}}

-----------------------------------------------------------------------------
(* 4.3 Diff Extractor: the diff texts it is run on                         *)

RECURSIVE Decimal(_)
\* str(n) of a natural number.
Decimal(n) ==
  IF n < 10 THEN <<DigitSeq[n + 1]>>
  ELSE Decimal(n \div 10) \o <<DigitSeq[(n % 10) + 1]>>

\* The hunk headers run up to MaxHunkStart, a hunk adds up to MaxAdded lines.
MaxHunkStart == 11

MaxAdded == 2

DiffFiles == {<<"f", ".", "p", "y">>, <<"l", "i", "b", "/", "g", ".", "p", "y">>}

\* The added line that the new file holds at line n.
AddedLine(n) == <<"+", "l", "i", "n", "e">> \o Decimal(n)

\* What `git diff --unified=0` prints for one file that got `added` new
\* lines at line c: the headers, the hunk header `@@ -0,0 +c,d @@` and the
\* lines. old is TRUE when the `--- a/` header is printed too.
FileDiff(f, c, added, old) ==
  <<<<"d", "i", "f", "f", " ", "-", "-", "g", "i", "t", " ", "a", "/">> \o f \o <<" ", "b", "/">> \o f>>
    \o (IF old THEN <<<<"-", "-", "-", " ", "a", "/">> \o f>> ELSE <<>>)
    \o <<<<"+", "+", "+", " ", "b", "/">> \o f,
         <<"@", "@", " ", "-", "0", ",", "0", " ", "+">> \o Decimal(c) \o <<",">> \o Decimal(added) \o <<" ", "@", "@">>>>
    \o [i \in 1..added |-> AddedLine(c + i - 1)]

\* The diff of the scenario: f.py got line5 and line6 at line 5.
ScenarioDiff == FileDiff(<<"f", ".", "p", "y">>, 5, 2, FALSE)

OneFileDiffs ==
  {FileDiff(f, c, added, old) :
     f \in DiffFiles, c \in 1..MaxHunkStart, added \in 0..MaxAdded, old \in BOOLEAN}

\* One file, or f.py and then lib/g.py.
DiffInputs ==
  OneFileDiffs
    \cup {FileDiff(<<"f", ".", "p", "y">>, c, 1, TRUE) \o FileDiff(<<"l", "i", "b", "/", "g", ".", "p", "y">>, e, added, TRUE) :
            c \in {1, MaxHunkStart}, e \in 1..MaxHunkStart, added \in 0..MaxAdded}

DiffInit ==
  /\ diffIn \in DiffInputs
  /\ diffOut = <<>>
  /\ diffPc = "input"

\* get_git_diff() runs on what git printed.
GetGitDiff ==
  /\ diffPc = "input"
  /\ diffOut' = get_git_diff(diffIn)
  /\ diffPc' = "done"
  /\ UNCHANGED <<diffIn, scanVars, metaVars, exclVars, pushVars, entVars, apiVars, genieVars>>

-----------------------------------------------------------------------------
(* 4.4 Secret Scanner, secretgenie variant                                 *)
(* (secretgenie/commit_scripts/secretscan.py)                              *)
(*                                                                         *)
(* A session is [found_secrets, seen_secrets, seen_file_lines]: the three  *)
(* fields of a SecretScanner. calculate_entropy, is_suspicious_env_var and *)
(* should_skip_value hold the same code as in the hooks variant.           *)

\* ENTROPY_THRESHOLDS of secretgenie/commit_scripts/config.py, in millionths.
GENIE_ENTROPY_THRESHOLDS ==
  [password |-> 3000000, api_key |-> 4500000, token |-> 4000000,
   secret |-> 4000000, default |-> 4000000]

\* PATTERNS of secretgenie/commit_scripts/config.py: the entries of the hooks
\* catalog in the same order, the three Password Assignment entries with
\* min_length 6 and threshold 3.0.
GENIE_PATTERNS ==
  [i \in DOMAIN PATTERNS |->
     IF PATTERNS[i].type = "Password Assignment"
     THEN [PATTERNS[i] EXCEPT !.config = [min_length |-> 6, require_entropy |-> TRUE,
                                          threshold |-> 3000000]]
     ELSE PATTERNS[i]]

RECURSIVE GenieCatalogSecrets(_, _)
\* The first pass without its test of _seen_secrets: the secret dict of every
\* match that passes the skip-value, minimum-length, entropy and name checks,
\* in the order the two loops reach them.
GenieCatalogSecrets(line, patterns) ==
  IF patterns = <<>> THEN <<>>
  ELSE LET entry == Head(patterns)
           ms == SelectSeq(FindIter(entry.pattern, line, 1),
                           LAMBDA m : CatalogAccepts(entry, m, line))
       IN [j \in DOMAIN ms |-> CatalogSecret(entry, ms[j], line)]
            \o GenieCatalogSecrets(line, Tail(patterns))

\* One match of a variable pattern passes the checks of the second pass but
\* the test of _seen_secrets.
GenieVarAccepts(vp, m, line) ==
  LET var_name == GroupOf(m, line, vp.name)
      value == GroupOf(m, line, vp.value)
      threshold == IF Contains(LowerStr(var_name), <<"p", "a", "s", "s", "w", "o", "r", "d">>)
                   THEN GENIE_ENTROPY_THRESHOLDS.password
                   ELSE GENIE_ENTROPY_THRESHOLDS.default
  IN /\ ~should_skip_value(value)
     /\ is_suspicious_env_var(var_name)
     /\ calculate_entropy(value) >= threshold

RECURSIVE GenieVarSecrets(_, _)
\* The second pass without its test of _seen_secrets.
GenieVarSecrets(line, patterns) ==
  IF patterns = <<>> THEN <<>>
  ELSE LET vp == Head(patterns)
           ms == SelectSeq(FindIter(vp.pattern, line, 1),
                           LAMBDA m : GenieVarAccepts(vp, m, line))
       IN [j \in DOMAIN ms |-> VarSecret(vp, ms[j], line)]
            \o GenieVarSecrets(line, Tail(patterns))

CommentMarkers == {<<"#">>, <<"/", "/">>, <<"/", "*">>, <<"*">>}

\* line.strip().startswith(('#', '//', '/*', '*'))
IsCommentLine(line) == \E marker \in CommentMarkers : StartsWith(Strip(line), marker)

\* The lines the secretgenie scanner is run on: lines of the hooks pool and
\* the same text behind a comment marker.
C_hash_var == <<"#", " ">> \o L_var

C_slash_export == <<"/", "/", " ">> \o L_export

C_star_two == <<" ", "*", " ">> \o L_two

C_block_var == <<"/", "*", " ">> \o L_var

GenieLinePool ==
  {L_akia, L_two, L_var, L_export, L_plain, L_blank,
   C_hash_var, C_slash_export, C_star_two, C_block_var}

\* The two passes are pure but for _seen_secrets: the matches that pass the
\* other checks are computed once for each line.
GenieTable ==
  [line \in GenieLinePool |->
     [catalog |-> GenieCatalogSecrets(line, GENIE_PATTERNS),
      var |-> GenieVarSecrets(line, var_patterns)]]

\* `if value in self._seen_secrets: continue`: the first secret whose value
\* was not seen, as a sequence of at most one secret.
FirstUnseen(secrets, seen_secrets) ==
  LET unseen == SelectSeq(secrets, LAMBDA x : x.matched_content \notin seen_secrets)
  IN IF unseen = <<>> THEN <<>> ELSE <<unseen[1]>>

\* The two passes on one line: the second runs only when the first records
\* nothing.
GenieLineSecret(line, seen_secrets) ==
  LET first == FirstUnseen(GenieTable[line].catalog, seen_secrets)
  IN IF first # <<>> THEN first ELSE FirstUnseen(GenieTable[line].var, seen_secrets)

NewGenie == [found_secrets |-> <<>>, seen_secrets |-> {}, seen_file_lines |-> {}]

\* The two passes at (file_path, line_number) and what they record.
GenieRecord(s, file_path, line_number, line) ==
  The({IF r = <<>> THEN s
       ELSE [found_secrets |-> Append(s.found_secrets,
                                      Secret(file_path, line_number, line, r[1])),
             seen_secrets |-> s.seen_secrets \cup {r[1].matched_content},
             seen_file_lines |-> s.seen_file_lines \cup {<<file_path, line_number>>}] :
         r \in {GenieLineSecret(line, s.seen_secrets)}})

\* SecretScanner.scan_line of secretgenie: the session after the call.
genie_scan_line(s, file_path, line_number, line) ==
  IF <<file_path, line_number>> \in s.seen_file_lines THEN s
  ELSE GenieRecord(s, file_path, line_number, line)

RECURSIVE GenieContentFrom(_, _, _, _)
\* The loop of scan_content of secretgenie from line line_num on.
GenieContentFrom(s, lines, file_path, line_num) ==
  IF line_num > Len(lines) THEN s
  ELSE LET line == lines[line_num] IN
       IF Strip(line) = <<>> \/ IsCommentLine(line)
       THEN GenieContentFrom(s, lines, file_path, line_num + 1)
       ELSE IF <<file_path, line_num>> \in s.seen_file_lines
       THEN GenieContentFrom(s, lines, file_path, line_num + 1)
       ELSE GenieContentFrom(GenieRecord(s, file_path, line_num, line),
                             lines, file_path, line_num + 1)

\* SecretScanner.scan_content of secretgenie: found_secrets is emptied, the
\* lines are scanned, found_secrets is returned.
genie_scan_content(s, lines, file_path) ==
  The({[s |-> r, ret |-> r.found_secrets] :
         r \in {GenieContentFrom([s EXCEPT !.found_secrets = <<>>], lines, file_path, 1)}})

\* changed_lines[key] = value on a dict kept as a sequence of [key, value]
\* in insertion order: the value of a key it holds is replaced in place.
DictSet(d, key, value) ==
  IF \E i \in DOMAIN d : d[i].key = key
  THEN [i \in DOMAIN d |-> IF d[i].key = key THEN [key |-> key, value |-> value] ELSE d[i]]
  ELSE Append(d, [key |-> key, value |-> value])

DictGet(d, key) == d[CHOOSE i \in DOMAIN d : d[i].key = key].value

\* int(hunk_info.split(',')[0].lstrip('+')) of a hunk header: the number, or
\* None where int() raises ValueError on a text that is no run of digits.
NewStart(line) ==
  LET text == LStripChars(Split(Split(line, " ")[3], ",")[1], {"+"})
  IN IF text # <<>> /\ \A i \in DOMAIN text : text[i] \in Digit
     THEN Some(ParseInt(text, 1, 0)) ELSE None

\* One iteration of the loop of scan_staged_changes over the diff, on the
\* parser state [changed_lines, current_file, current_line_number, raised].
\* raised: `line.split(' ')[2]` of a header of fewer than three pieces, or
\* `current_line_number += 1` before any hunk header, raised an exception.
StagedStep(st, line) ==
  IF st.raised THEN st
  ELSE IF StartsWith(line, <<"d", "i", "f", "f", " ", "-", "-", "g", "i", "t">>)
  THEN LET words == Words(line)
           file_path == LStripChars(words[Len(words)], {"b", "/"})
       IN [st EXCEPT !.current_file = Some(file_path),
                     !.changed_lines = DictSet(@, file_path, <<>>)]
  ELSE IF StartsWith(line, <<"@", "@", " ">>)
  THEN IF Len(Split(line, " ")) < 3 THEN [st EXCEPT !.raised = TRUE]
       ELSE LET new_start == NewStart(line) IN
            IF new_start.some
            THEN [st EXCEPT !.current_line_number = Some(new_start.v - 1)]
            ELSE st
  ELSE IF /\ st.current_file.some
          /\ st.current_file.v # <<>>
          /\ StartsWith(line, <<"+">>)
          /\ ~StartsWith(line, <<"+", "+", "+">>)
  THEN IF ~st.current_line_number.some THEN [st EXCEPT !.raised = TRUE]
       ELSE LET f == st.current_file.v
                n == st.current_line_number.v + 1
            IN [st EXCEPT !.current_line_number = Some(n),
                          !.changed_lines =
                             DictSet(st.changed_lines, f,
                                     DictSet(DictGet(st.changed_lines, f), n, Drop(line, 1)))]
  ELSE st

RECURSIVE StagedFold(_, _, _)
StagedFold(st, lines, i) ==
  IF i > Len(lines) THEN st ELSE StagedFold(StagedStep(st, lines[i]), lines, i + 1)

\* The parser inside scan_staged_changes on the lines `git diff --cached -p
\* --unified=0 --no-color` printed.
ParseStagedDiff(diff_output) ==
  StagedFold([changed_lines |-> <<>>, current_file |-> None,
              current_line_number |-> None, raised |-> FALSE], diff_output, 1)

RECURSIVE ScanStagedLines(_, _, _, _)
\* `for line_number, content in lines.items()` from the i-th item on.
ScanStagedLines(s, file_path, lines, i) ==
  IF i > Len(lines) THEN s
  ELSE LET content == lines[i].value IN
       IF Strip(content) = <<>> \/ IsCommentLine(content)
       THEN ScanStagedLines(s, file_path, lines, i + 1)
       ELSE ScanStagedLines(genie_scan_line(s, file_path, lines[i].key, content),
                            file_path, lines, i + 1)

RECURSIVE ScanStagedFiles(_, _, _)
\* `for file_path, lines in changed_lines.items()` from the i-th item on.
ScanStagedFiles(s, changed_lines, i) ==
  IF i > Len(changed_lines) THEN s
  ELSE ScanStagedFiles(ScanStagedLines(s, changed_lines[i].key, changed_lines[i].value, 1),
                       changed_lines, i + 1)

\* SecretScanner.scan_staged_changes: staged_files is what
\* `git diff --cached --name-only` listed, diff_output what
\* `git diff --cached -p --unified=0 --no-color` printed, git_ok is FALSE when
\* a git command fails. The result holds the parsed changed_lines too.
scan_staged_changes(s, staged_files, diff_output, git_ok) ==
  IF ~git_ok \/ staged_files = <<>>
  THEN [s |-> s, ret |-> <<>>, changed_lines |-> <<>>]
  ELSE The({IF st.raised
            THEN [s |-> s, ret |-> <<>>, changed_lines |-> st.changed_lines]
            ELSE The({[s |-> r, ret |-> r.found_secrets, changed_lines |-> st.changed_lines] :
                        r \in {ScanStagedFiles(s, st.changed_lines, 1)}}) :
              st \in {ParseStagedDiff(diff_output)}})

\* The file paths of the staged changes: plain, below lib/, and three that
\* begin with the letter b.
F_f == <<"f", ".", "p", "y">>

F_lib == <<"l", "i", "b", "/", "g", ".", "p", "y">>

F_bin == <<"b", "i", "n", "/", "x", ".", "p", "y">>

F_bb == <<"b", "/", "b", ".", "p", "y">>

F_b == <<"b">>

\* What `git diff --cached -p --unified=0` prints for one file that got the
\* lines `added` at line c.
StagedDiff(f, c, added) ==
  <<<<"d", "i", "f", "f", " ", "-", "-", "g", "i", "t", " ", "a", "/">> \o f \o <<" ", "b", "/">> \o f,
    <<"-", "-", "-", " ", "a", "/">> \o f,
    <<"+", "+", "+", " ", "b", "/">> \o f,
    <<"@", "@", " ", "-">> \o Decimal(c - 1) \o <<",", "0", " ", "+">> \o Decimal(c) \o <<",">> \o Decimal(Len(added)) \o <<" ", "@", "@">>>>
    \o [i \in DOMAIN added |-> <<"+">> \o added[i]]

\* The staged changes of one commit: the names git lists and the diff.
Staged(files, diff) == [staged_files |-> files, diff_output |-> diff]

StagedPool ==
  {Staged(<<>>, <<>>),
   Staged(<<F_f>>, StagedDiff(F_f, 5, <<L_var, L_plain>>)),
   Staged(<<F_bin>>, StagedDiff(F_bin, 1, <<L_export>>)),
   Staged(<<F_lib>>, StagedDiff(F_lib, 3, <<C_hash_var, L_two>>)),
   Staged(<<F_bb>>, StagedDiff(F_bb, 2, <<C_slash_export, L_blank>>)),
   Staged(<<F_b>>, StagedDiff(F_b, 1, <<L_export>>)),
   Staged(<<F_f, F_lib>>,
          StagedDiff(F_f, 1, <<L_two>>) \o StagedDiff(F_lib, 7, <<C_block_var, L_akia>>))}

\* get_git_diff is pure: its value on each staged diff is computed once.
StagedDiffTable ==
  [d \in {x.diff_output : x \in StagedPool} |-> get_git_diff(d)]

\* The contents scan_content is run on.
GenieContentPool ==
  {<<L_var>>, <<C_hash_var>>, <<L_plain, C_slash_export>>, <<L_akia, L_two>>,
   <<L_blank, C_star_two>>, <<L_var, L_plain, L_var>>}

GenieFiles == {F_f, F_bin}

\* The call before this one, without the call before it.
LastCall == [x \in DOMAIN genieLast \ {"prev"} |-> genieLast[x]]

\* The effect of one call on the instance.
GenieCalled(s, call) ==
  /\ genie' = s
  /\ genieLast' = call @@ [prev |-> LastCall]
  /\ genieCalls' = genieCalls + 1
  /\ UNCHANGED <<scanVars, diffVars, metaVars, exclVars, pushVars, entVars, apiVars>>

\* scanner.scan_content(content, file_path)
GenieScanContent(lines, file_path) ==
  /\ genieCalls < MaxCalls
  /\ \E r \in {genie_scan_content(genie, lines, file_path)} :
       GenieCalled(r.s, [op |-> "scan_content", lines |-> lines,
                         file_path |-> file_path, ret |-> r.ret])

\* scanner.scan_staged_changes()
GenieScanStagedChanges(staged, git_ok) ==
  /\ genieCalls < MaxCalls
  /\ \E r \in {scan_staged_changes(genie, staged.staged_files, staged.diff_output, git_ok)} :
       GenieCalled(r.s, [op |-> "scan_staged_changes", staged |-> staged,
                         git_ok |-> git_ok, changed_lines |-> r.changed_lines,
                         ret |-> r.ret])

GenieInit ==
  /\ genie = NewGenie
  /\ genieLast = [op |-> "init"]
  /\ genieCalls = 0

-----------------------------------------------------------------------------
(* 4.6 Meta Validator (validation/validators/meta_validator.py)            *)
(*                                                                         *)
(* A descriptor value is None, or [t |-> "str", v |-> characters],         *)
(* [t |-> "bool", v |-> b], [t |-> "int", v |-> n], [t |-> "list", v |->   *)
(* a sequence of values] or [t |-> "dict", v |-> a function from keys to   *)
(* values].                                                                *)

Str(s) == [t |-> "str", v |-> s]

Bool(b) == [t |-> "bool", v |-> b]

Num(n) == [t |-> "int", v |-> n]

List(l) == [t |-> "list", v |-> l]

Dict(d) == [t |-> "dict", v |-> d]

\* A list nested deeper than the interpreter's recursion limit: its one
\* element stands for the levels below.
Deep == [t |-> "list", v |-> <<[t |-> "deep"]>>]

\* str(x), repr(x) and f"{x}" raise RecursionError on such a value.
Unprintable(x) == x = Deep

\* isinstance(x, dict), isinstance(x, list)
IsDict(x) == x # None /\ x.t = "dict"

IsList(x) == x # None /\ x.t = "list"

\* bool(x): None, False, 0, "", [] and {} are false.
Truthy(x) ==
  /\ x # None
  /\ CASE x.t = "bool" -> x.v
       [] x.t = "int" -> x.v # 0
       [] x.t = "str" -> x.v # <<>>
       [] x.t = "list" -> x.v # <<>>
       [] x.t = "dict" -> DOMAIN x.v # {}

\* a or b
Or(a, b) == IF Truthy(a) THEN a ELSE b

\* str(x) of a string, a boolean or a natural number.
PyStr(x) ==
  CASE x.t = "str" -> x.v
    [] x.t = "bool" -> (IF x.v THEN <<"T", "r", "u", "e">> ELSE <<"F", "a", "l", "s", "e">>)
    [] x.t = "int" -> Decimal(x.v)

\* d.get(key) of a dict d.
Get(d, key) == IF key \in DOMAIN d.v THEN d.v[key] ELSE None

RECURSIVE GetPath(_, _)
\* The loop of _get_nested_value over path.split('.').
GetPath(current, keys) ==
  IF keys = <<>> THEN current
  ELSE IF IsDict(current) /\ Head(keys) \in DOMAIN current.v
  THEN GetPath(current.v[Head(keys)], Tail(keys))
  ELSE None

\* MetaValidator._get_nested_value(data, path), the path given as its keys
_get_nested_value(data, path) == GetPath(data, path)

ALLOWED_VALUES ==
  [layer |-> {<<"x", "A", "P", "I">>, <<"s", "A", "P", "I">>, <<"p", "A", "P", "I">>},
   audience |-> {<<"I", "n", "t", "e", "r", "n", "a", "l">>, <<"E", "x", "t", "e", "r", "n", "a", "l">>},
   status |-> {<<"d", "e", "v", "e", "l", "o", "p">>, <<"t", "e", "s", "t">>, <<"p", "r", "e", "l", "i", "v", "e">>, <<"l", "i", "v", "e">>, <<"d", "e", "p", "r", "e", "c", "a", "t", "e", "d">>, <<"d", "e", "m", "i", "s", "e", "d">>},
   apiStyle |-> {<<"H", "Y", "D", "R", "O", "G", "E", "N">>, <<"D", "O", "M", "A", "I", "N", "_", "P", "A", "P", "I">>, <<"O", "R", "I", "G", "I", "N", "A", "T", "I", "O", "N", "S">>, <<"B", "A", "N", "K", "I", "N", "G", " ", "2", ".", "0">>,
                 <<"F", "I", "R", "S", "T", "_", "D", "I", "R", "E", "C", "T">>, <<"B", "E", "R", "L", "I", "N">>, <<"S", "T", "E", "T">>, <<"O", "B", "I", "E">>, <<"O", "T", "H", "E", "R">>},
   architecturalStyle |-> {<<"R", "E", "S", "T">>, <<"G", "R", "A", "P", "H", "Q", "L">>, <<"S", "O", "A", "P">>, <<"R", "P", "C">>},
   dataClassification |-> {<<"p", "u", "b", "l", "i", "c">>, <<"i", "n", "t", "e", "r", "n", "a", "l">>, <<"c", "o", "n", "f", "i", "d", "e", "n", "t", "i", "a", "l">>, <<"r", "e", "s", "t", "r", "i", "c", "t", "e", "d">>,
                           <<"s", "e", "c", "r", "e", "t">>},
   implementationFramework |-> {<<"C", "A", "R", "B", "O", "N">>, <<"S", "P", "R", "I", "N", "G", "_", "B", "O", "O", "T">>, <<"S", "I", "L", "V", "E", "R">>, <<"S", "I", "L", "V", "E", "R", "_", "1", "S">>,
                                <<"N", "O", "D", "E", " ", "J", "S">>, <<"D", "O", "M", "A", "I", "N", "_", "P", "A", "P", "I">>, <<"M", "U", "L", "E", "S", "O", "F", "T">>, <<"O", "T", "H", "E", "R">>},
   GBGF |-> {<<"C", "M", "B">>, <<"C", "e", "n", "t", "r", "a", "l", "-", "A", "r", "c", "h", "i", "t", "e", "c", "t", "u", "r", "e">>, <<"C", "o", "r", "p", "o", "r", "a", "t", "e", "-", "F", "u", "n", "c", "t", "i", "o", "n", "s">>, <<"G", "r", "o", "u", "p", "-", "D", "a", "t", "a">>,
             <<"F", "C", "R">>, <<"G", "B", "M">>, <<"G", "P", "B">>, <<"C", "y", "b", "e", "r", "-", "S", "e", "c", "u", "r", "i", "t", "y">>, <<"I", "T", "I", "D">>, <<"O", "S", "S">>, <<"P", "a", "y", "m", "e", "n", "t", "s">>,
             <<"R", "B", "W", "M">>, <<"H", "B", "F", "R">>, <<"R", "i", "s", "k">>, <<"D", "A", "O">>, <<"W", "S", "I", "T">>, <<"W", "P", "B">>, <<"C", "o", "m", "p", "l", "i", "a", "n", "c", "e">>, <<"C", "T", "O">>,
             <<"E", "n", "t", "e", "r", "p", "r", "i", "s", "e", " ", "T", "e", "c", "h", "n", "o", "l", "o", "g", "y">>, <<"G", "O", "A">>}]

\* `x in allowed` for a list of strings.
InAllowed(x, allowed) == x # None /\ x.t = "str" /\ x.v \in allowed

\* What a rule hands back: its return value and the errors it added.
Pass == [ret |-> TRUE, errs |-> <<>>]

\* The rule does not return: it raises the exception exc, having added no
\* error.
Raising(exc) == [ret |-> FALSE, errs |-> <<>>, exc |-> exc]

Raised(r) == "exc" \in DOMAIN r

\* self.add_error(message, file_path); return False. text is the fixed part
\* of the message, arg the value the message quotes: the message is put
\* together before add_error is called.
Fail(text, arg, file_path) ==
  IF Unprintable(arg) THEN Raising("RecursionError")
  ELSE [ret |-> FALSE,
        errs |-> <<[file_path |-> file_path, text |-> text, arg |-> arg]>>]

\* int(s): blanks around an optional sign and decimal digits; [ok, v].
IntOf(s) ==
  LET body == Strip(s)
      digits == IF body # <<>> /\ body[1] \in {"+", "-"} THEN Drop(body, 1) ELSE body
  IN IF digits # <<>> /\ \A i \in DOMAIN digits : digits[i] \in Digit
     THEN [ok |-> TRUE,
           v |-> IF body[1] = "-" THEN 0 - ParseInt(digits, 1, 0)
                 ELSE ParseInt(digits, 1, 0)]
     ELSE [ok |-> FALSE, v |-> 0]

\* s is matched up to position p - 1 and `$` holds at p: the end, or a
\* last line feed.
AtEnd(s, p) == p = Len(s) + 1 \/ (p = Len(s) /\ s[p] = "\n")

RECURSIVE RunEnd(_, _, _)
\* The position after the longest run of characters of set from p on.
RunEnd(s, p, set) ==
  IF p <= Len(s) /\ s[p] \in set THEN RunEnd(s, p + 1, set) ELSE p

\* (a, b, c) < (x, y, z) of tuples of three integers
TupleLess(a, b) ==
  \/ a[1] < b[1]
  \/ a[1] = b[1] /\ a[2] < b[2]
  \/ a[1] = b[1] /\ a[2] = b[2] /\ a[3] < b[3]

\* Rule 1: metaDataVersion should be >= 6.0.0
_validate_metadata_version(data, file_path) ==
  LET version == Get(data, "metaDataVersion") IN
  IF version = None THEN Fail("metaDataVersion is missing", None, file_path)
  ELSE IF Unprintable(version) THEN Raising("RecursionError")
  ELSE LET version_parts == Split(PyStr(version), ".") IN
       IF Len(version_parts) < 3
       THEN Fail("metaDataVersion format invalid", version, file_path)
       ELSE LET major == IntOf(version_parts[1])
                minor == IntOf(version_parts[2])
                patch == IntOf(version_parts[3])
            IN IF ~(major.ok /\ minor.ok /\ patch.ok)
               THEN Fail("metaDataVersion is not a valid version number", version,
                         file_path)
               ELSE IF TupleLess(<<major.v, minor.v, patch.v>>, <<6, 0, 0>>)
               THEN Fail("metaDataVersion is less than required 6.0.0", version,
                         file_path)
               ELSE Pass

RECURSIVE AssetNameTail(_, _)
\* ((--|-)[a-z0-9]+)*$ matches s from position p on.
AssetNameTail(s, p) ==
  \/ AtEnd(s, p)
  \/ /\ p <= Len(s) /\ s[p] = "-"
     /\ LET q == IF p + 1 <= Len(s) /\ s[p + 1] = "-" THEN p + 2 ELSE p + 1
            r == RunEnd(s, q, Lower \cup Digit)
        IN r > q /\ AssetNameTail(s, r)

\* re.match(r'^[a-z]+((--|-)[a-z0-9]+)*$', s)
AssetNameMatch(s) ==
  LET r == RunEnd(s, 1, Lower)
  IN r > 1 /\ AssetNameTail(s, r)

\* Rule 2: assetName should match the asset name pattern
_validate_asset_name(data, file_path) ==
  LET asset_name == Get(data, "assetName") IN
  IF asset_name = None THEN Fail("assetName is missing", None, file_path)
  ELSE IF Unprintable(asset_name) THEN Raising("RecursionError")
  ELSE IF ~AssetNameMatch(PyStr(asset_name))
  THEN Fail("assetName does not match required pattern", asset_name, file_path)
  ELSE Pass

\* re.match(r'^1\.0\.0.*$', s)
AssetVersionMatch(s) ==
  /\ StartsWith(s, <<"1", ".", "0", ".", "0">>)
  /\ AtEnd(s, RunEnd(s, 6, {s[i] : i \in DOMAIN s} \ {"\n"}))

\* Rule 3: assetVersion should start with 1.0.0
_validate_asset_version(data, file_path) ==
  LET asset_version == Get(data, "assetVersion") IN
  IF asset_version = None THEN Fail("assetVersion is missing", None, file_path)
  ELSE IF Unprintable(asset_version) THEN Raising("RecursionError")
  ELSE IF ~AssetVersionMatch(PyStr(asset_version))
  THEN Fail("assetVersion should start with '1.0.0'", asset_version, file_path)
  ELSE Pass

\* Rule 4: autoIncrementAssetVersion should be true
_validate_auto_increment_asset_version(data, file_path) ==
  LET auto_increment == Get(data, "autoIncrementAssetVersion") IN
  IF auto_increment = None
  THEN Fail("autoIncrementAssetVersion is missing", None, file_path)
  ELSE IF auto_increment # Bool(TRUE)
  THEN Fail("autoIncrementAssetVersion should be true", auto_increment, file_path)
  ELSE Pass

\* Rule 5: contractFileName should not be missing
_validate_contract_file_name(data, file_path) ==
  LET contract_file_name == Get(data, "contractFileName") IN
  IF contract_file_name = None \/ contract_file_name = Str(<<>>)
  THEN Fail("contractFileName is missing", None, file_path)
  ELSE Pass

\* Rule 6: ignore should be false
_validate_ignore(data, file_path) ==
  LET ignore == Get(data, "ignore") IN
  IF ignore = None THEN Fail("ignore field is missing", None, file_path)
  ELSE IF ignore = Bool(TRUE) THEN Fail("ignore should be false", None, file_path)
  ELSE Pass

\* The rules that want a value of a list of allowed ones at a path:
\* `if v is None: missing; if v not in allowed: not in allowed values`.
AllowedAt(data, path, allowed, name, file_path) ==
  LET v == _get_nested_value(data, path) IN
  IF v = None THEN Fail(name \o " is missing", None, file_path)
  ELSE IF ~InAllowed(v, allowed)
  THEN Fail(name \o " is not in allowed values", v, file_path)
  ELSE Pass

\* Rule 7: API.layer should be one of allowed values
_validate_api_layer(data, file_path) ==
  AllowedAt(data, <<"API", "layer">>, ALLOWED_VALUES.layer, "API.layer", file_path)

\* Rule 8: API.audience should be one of allowed values
_validate_api_audience(data, file_path) ==
  AllowedAt(data, <<"API", "audience">>, ALLOWED_VALUES.audience, "API.audience",
            file_path)

RECURSIVE DotGroups(_, _, _)
\* (?:\.[0-9]+){1,2}$ matches s from p on, n groups being matched already.
DotGroups(s, p, n) ==
  \/ n >= 1 /\ AtEnd(s, p)
  \/ /\ n < 2
     /\ p <= Len(s) /\ s[p] = "."
     /\ LET r == RunEnd(s, p + 1, Digit)
        IN \E q \in (p + 2)..r : DotGroups(s, q, n + 1)

\* re.match(r'^[vV]?[0-9]+(?:\.[0-9]+){1,2}$', s)
ContractVersionMatch(s) ==
  LET p == IF s # <<>> /\ s[1] \in {"v", "V"} THEN 2 ELSE 1
      r == RunEnd(s, p, Digit)
  IN \E q \in (p + 1)..r : DotGroups(s, q, 0)

\* Rule 9: API.version.contractVersion should match the version pattern
_validate_contract_version(data, file_path) ==
  LET contract_version == _get_nested_value(data, <<"API", "version", "contractVersion">>)
  IN IF contract_version = None
     THEN Fail("API.version.contractVersion is missing", None, file_path)
     ELSE IF Unprintable(contract_version) THEN Raising("RecursionError")
     ELSE IF ~ContractVersionMatch(PyStr(contract_version))
     THEN Fail("API.version.contractVersion does not match version pattern",
               contract_version, file_path)
     ELSE Pass

\* Rule 10: API.version.status should be one of allowed values
_validate_status(data, file_path) ==
  AllowedAt(data, <<"API", "version", "status">>, ALLOWED_VALUES.status,
            "API.version.status", file_path)

\* Rule 11: API.version.privateAPI should not be missing
_validate_private_api(data, file_path) ==
  IF _get_nested_value(data, <<"API", "version", "privateAPI">>) = None
  THEN Fail("API.version.privateAPI is missing", None, file_path)
  ELSE Pass

\* Rule 12: API.version.apiStyle should be one of allowed values
_validate_api_style(data, file_path) ==
  AllowedAt(data, <<"API", "version", "apiStyle">>, ALLOWED_VALUES.apiStyle,
            "API.version.apiStyle", file_path)

\* API.version.implementationFramework should be one of allowed values
_validate_implementation_framework(data, file_path) ==
  LET impl_framework ==
        _get_nested_value(data, <<"API", "version", "implementationFramework">>)
  IN IF impl_framework = None \/ impl_framework = Str(<<>>)
     THEN Fail("wpb-implementationFramework-missing", None, file_path)
     ELSE IF ~InAllowed(impl_framework, ALLOWED_VALUES.implementationFramework)
     THEN Fail("wpb-implementationFramework-unrecognised", impl_framework, file_path)
     ELSE Pass

\* Rule 13: API.version.architecturalStyle should be one of allowed values
_validate_architectural_style(data, file_path) ==
  AllowedAt(data, <<"API", "version", "architecturalStyle">>,
            ALLOWED_VALUES.architecturalStyle, "API.version.architecturalStyle",
            file_path)

\* isinstance(bm, dict) and bm.get('name') == 'WPB-CIDM'
IsWpbCidm(bm) == IsDict(bm) /\ Get(bm, "name") = Str(<<"W", "P", "B", "-", "C", "I", "D", "M">>)

\* _validate_business_models, were an empty businessModels list taken as given.
_validate_business_models_none_only(data, file_path) ==
  LET layer == _get_nested_value(data, <<"API", "layer">>)
      business_models == _get_nested_value(data, <<"API", "version", "businessModels">>)
  IN IF layer = Str(<<"p", "A", "P", "I">>) /\ business_models = None
     THEN Fail("API.version.businessModels is required when API.layer is 'pAPI'",
               None, file_path)
     ELSE Pass

\* Rule 14: API.version.businessModels should not be empty if API.layer is
\* pAPI
_validate_business_models(data, file_path) ==
  LET layer == _get_nested_value(data, <<"API", "layer">>)
      business_models == _get_nested_value(data, <<"API", "version", "businessModels">>)
  IN IF /\ layer = Str(<<"p", "A", "P", "I">>)
        /\ \/ business_models = None
           \/ (IsList(business_models) /\ Len(business_models.v) = 0)
     THEN Fail("API.version.businessModels is required when API.layer is 'pAPI'",
               None, file_path)
     ELSE Pass

\* _validate_business_models_wpb_cidm, were one entry named WPB-CIDM enough
\* under sAPI and xAPI too.
_validate_business_models_wpb_cidm_any(data, file_path) ==
  LET layer == _get_nested_value(data, <<"API", "layer">>)
      business_models == _get_nested_value(data, <<"API", "version", "businessModels">>)
  IN IF layer = Str(<<"p", "A", "P", "I">>)
     THEN IF ~Truthy(business_models) \/ ~IsList(business_models)
          THEN Fail("API.version.businessModels is required and must be a list when API.layer is 'pAPI' (WPB-CIDM check)",
                    None, file_path)
          ELSE IF ~\E i \in DOMAIN business_models.v : IsWpbCidm(business_models.v[i])
          THEN Fail("API.version.businessModels must contain an object with name 'WPB-CIDM' when API.layer is 'pAPI'",
                    None, file_path)
          ELSE Pass
     ELSE IF layer \in {Str(<<"s", "A", "P", "I">>), Str(<<"x", "A", "P", "I">>)}
     THEN IF /\ Truthy(business_models) /\ IsList(business_models)
             /\ ~\E i \in DOMAIN business_models.v : IsWpbCidm(business_models.v[i])
          THEN Fail("If API.layer is 'sAPI' or 'xAPI', all businessModels names must be 'WPB-CIDM' if present",
                    None, file_path)
          ELSE Pass
     ELSE Pass

\* If API.layer is pAPI, businessModels must have one named WPB-CIDM; for
\* sAPI and xAPI all of them must be named so.
_validate_business_models_wpb_cidm(data, file_path) ==
  LET layer == _get_nested_value(data, <<"API", "layer">>)
      business_models == _get_nested_value(data, <<"API", "version", "businessModels">>)
  IN IF layer = Str(<<"p", "A", "P", "I">>)
     THEN IF ~Truthy(business_models) \/ ~IsList(business_models)
          THEN Fail("API.version.businessModels is required and must be a list when API.layer is 'pAPI' (WPB-CIDM check)",
                    None, file_path)
          ELSE IF ~\E i \in DOMAIN business_models.v : IsWpbCidm(business_models.v[i])
          THEN Fail("API.version.businessModels must contain an object with name 'WPB-CIDM' when API.layer is 'pAPI'",
                    None, file_path)
          ELSE Pass
     ELSE IF layer \in {Str(<<"s", "A", "P", "I">>), Str(<<"x", "A", "P", "I">>)}
     THEN IF /\ Truthy(business_models) /\ IsList(business_models)
             /\ \E i \in DOMAIN business_models.v : ~IsWpbCidm(business_models.v[i])
          THEN Fail("If API.layer is 'sAPI' or 'xAPI', all businessModels names must be 'WPB-CIDM' if present",
                    None, file_path)
          ELSE Pass
     ELSE Pass

\* Rule 15: API.version.dataClassification should be one of allowed values
_validate_data_classification(data, file_path) ==
  AllowedAt(data, <<"API", "version", "dataClassification">>,
            ALLOWED_VALUES.dataClassification, "API.version.dataClassification",
            file_path)

\* Rule 16: GBGF should be one of allowed values
_validate_gbgf(data, file_path) ==
  LET gbgf_contract == _get_nested_value(data, <<"API", "contract", "GBGF">>)
      gbgf_owner == _get_nested_value(data, <<"contractOwner", "GBGF">>)
      gbgf_api_contract == _get_nested_value(data, <<"API", "contractOwner", "GBGF">>)
      gbgf == Or(Or(gbgf_contract, gbgf_owner), gbgf_api_contract)
  IN IF gbgf = None
     THEN Fail("GBGF field is missing (should be in API.contract.GBGF or contractOwner.GBGF)",
               None, file_path)
     ELSE IF ~InAllowed(gbgf, ALLOWED_VALUES.GBGF)
     THEN IF Unprintable(gbgf) THEN Raising("RecursionError") ELSE
          Fail("GBGF value is not in allowed values",
               [gbgf |-> gbgf,
                location |-> IF Truthy(gbgf_contract) THEN "API.contract.GBGF"
                             ELSE "contractOwner.GBGF"],
               file_path)
     ELSE Pass

\* The rules that want a field of the contract owner: the value is
\* `get(API.contractOwner.<field>) or get(contractOwner.<field>)`, missing
\* when None or "".
OwnerField(data, field, text, file_path) ==
  LET v == Or(_get_nested_value(data, <<"API", "contractOwner", field>>),
              _get_nested_value(data, <<"contractOwner", field>>))
  IN IF v = None \/ v = Str(<<>>) THEN Fail(text, None, file_path) ELSE Pass

\* Rule 17: API.contractOwner.serviceLine should not be missing
_validate_service_line(data, file_path) ==
  OwnerField(data, "serviceLine",
             "serviceLine is missing (should be in API.contractOwner.serviceLine or contractOwner.serviceLine)",
             file_path)

\* Rule 18: API.contractOwner.teamName should not be missing
_validate_team_name(data, file_path) ==
  OwnerField(data, "teamName",
             "teamName is missing (should be in API.contractOwner.teamName or contractOwner.teamName)",
             file_path)

\* Rule 19: API.contractOwner.teamEmailAddress should not be missing
_validate_team_email_address(data, file_path) ==
  OwnerField(data, "teamEmailAddress",
             "teamEmailAddress is missing (should be in API.contractOwner.teamEmailAddress or contractOwner.teamEmailAddress)",
             file_path)

\* _validate_transaction_names, were transactionNames required for every layer.
_validate_transaction_names_any_layer(data, file_path) ==
  LET transaction_names ==
        _get_nested_value(data, <<"API", "version", "transactionNames">>)
  IN IF \/ transaction_names = None
        \/ (IsList(transaction_names) /\ Len(transaction_names.v) = 0)
     THEN Fail("API.version.transactionNames is required when API.layer is 'sAPI'",
               None, file_path)
     ELSE Pass

\* Rule 20: API.version.transactionNames should not be empty if API.layer
\* is sAPI
_validate_transaction_names(data, file_path) ==
  LET layer == _get_nested_value(data, <<"API", "layer">>)
      transaction_names ==
        _get_nested_value(data, <<"API", "version", "transactionNames">>)
  IN IF /\ layer = Str(<<"s", "A", "P", "I">>)
        /\ \/ transaction_names = None
           \/ (IsList(transaction_names) /\ Len(transaction_names.v) = 0)
     THEN Fail("API.version.transactionNames is required when API.layer is 'sAPI'",
               None, file_path)
     ELSE Pass

\* self.validation_rules: the rule functions in the order they are run.
validation_rules ==
  <<"_validate_metadata_version", "_validate_asset_name", "_validate_asset_version",
    "_validate_auto_increment_asset_version", "_validate_contract_file_name",
    "_validate_ignore", "_validate_api_layer", "_validate_api_audience",
    "_validate_contract_version", "_validate_status", "_validate_private_api",
    "_validate_api_style", "_validate_implementation_framework",
    "_validate_architectural_style", "_validate_business_models",
    "_validate_business_models_wpb_cidm", "_validate_data_classification",
    "_validate_gbgf", "_validate_service_line", "_validate_team_name",
    "_validate_team_email_address", "_validate_transaction_names">>

\* rule_func(meta_content, file_path)
CallRule(rule_func, data, file_path) ==
  CASE rule_func = "_validate_metadata_version" -> _validate_metadata_version(data, file_path)
    [] rule_func = "_validate_asset_name" -> _validate_asset_name(data, file_path)
    [] rule_func = "_validate_asset_version" -> _validate_asset_version(data, file_path)
    [] rule_func = "_validate_auto_increment_asset_version" ->
         _validate_auto_increment_asset_version(data, file_path)
    [] rule_func = "_validate_contract_file_name" ->
         _validate_contract_file_name(data, file_path)
    [] rule_func = "_validate_ignore" -> _validate_ignore(data, file_path)
    [] rule_func = "_validate_api_layer" -> _validate_api_layer(data, file_path)
    [] rule_func = "_validate_api_audience" -> _validate_api_audience(data, file_path)
    [] rule_func = "_validate_contract_version" ->
         _validate_contract_version(data, file_path)
    [] rule_func = "_validate_status" -> _validate_status(data, file_path)
    [] rule_func = "_validate_private_api" -> _validate_private_api(data, file_path)
    [] rule_func = "_validate_api_style" -> _validate_api_style(data, file_path)
    [] rule_func = "_validate_implementation_framework" ->
         _validate_implementation_framework(data, file_path)
    [] rule_func = "_validate_architectural_style" ->
         _validate_architectural_style(data, file_path)
    [] rule_func = "_validate_business_models" ->
         _validate_business_models(data, file_path)
    [] rule_func = "_validate_business_models_wpb_cidm" ->
         _validate_business_models_wpb_cidm(data, file_path)
    [] rule_func = "_validate_data_classification" ->
         _validate_data_classification(data, file_path)
    [] rule_func = "_validate_gbgf" -> _validate_gbgf(data, file_path)
    [] rule_func = "_validate_service_line" -> _validate_service_line(data, file_path)
    [] rule_func = "_validate_team_name" -> _validate_team_name(data, file_path)
    [] rule_func = "_validate_team_email_address" ->
         _validate_team_email_address(data, file_path)
    [] rule_func = "_validate_transaction_names" ->
         _validate_transaction_names(data, file_path)

\* One turn of the loop, were the except clause to note the failure without
\* adding an error.
AfterRuleSilent(st, rule_func, r, file_path) ==
  [errors |-> st.errors \o r.errs,
   validation_passed |-> st.validation_passed /\ r.ret,
   log |-> Append(st.log, [rule |-> rule_func, added |-> Len(r.errs),
                           raised |-> Raised(r), ret |-> r.ret])]

\* One turn of the loop of validate_meta_content on
\* st = [errors, validation_passed, log] with r what the rule did: a rule
\* that raises is caught and adds "Validation rule error: ...". log notes
\* each rule that was run, the number of errors it added, whether it
\* raised and, when it did not, the value it returned.
AfterRule(st, rule_func, r, file_path) ==
  LET added == IF Raised(r)
               THEN <<[file_path |-> file_path, text |-> "Validation rule error",
                       arg |-> r.exc]>>
               ELSE r.errs
  IN [errors |-> st.errors \o added,
      validation_passed |-> st.validation_passed /\ r.ret,
      log |-> Append(st.log, [rule |-> rule_func, added |-> Len(added),
                              raised |-> Raised(r), ret |-> r.ret])]

RECURSIVE RunRulesUncaught(_, _, _, _)
\* The loop of validate_meta_content, were a rule's exception to leave it:
\* the rules after the one that raises are not run.
RunRulesUncaught(rules, data, file_path, st) ==
  IF rules = <<>> \/ (st.log # <<>> /\ st.log[Len(st.log)].raised) THEN st
  ELSE The({RunRulesUncaught(Tail(rules), data, file_path,
                             AfterRule(st, Head(rules), r, file_path)) :
              r \in {CallRule(Head(rules), data, file_path)}})

RECURSIVE RunRulesShort(_, _, _, _)
\* The loop of validate_meta_content, were it to stop at the first rule
\* that fails.
RunRulesShort(rules, data, file_path, st) ==
  IF rules = <<>> \/ ~st.validation_passed THEN st
  ELSE The({RunRulesShort(Tail(rules), data, file_path,
                          AfterRule(st, Head(rules), r, file_path)) :
              r \in {CallRule(Head(rules), data, file_path)}})

RECURSIVE RunRules(_, _, _, _)
\* `for rule_func in self.validation_rules`, each rule in its own
\* try/except, on st = [errors, validation_passed, log].
RunRules(rules, data, file_path, st) ==
  IF rules = <<>> THEN st
  ELSE The({RunRules(Tail(rules), data, file_path,
                     AfterRule(st, Head(rules), r, file_path)) :
              r \in {CallRule(Head(rules), data, file_path)}})

\* MetaValidator.validate_meta_content on a validator that holds the errors
\* errs: [errors, validation_passed, log].
validate_meta_content(errs, meta_content, file_path) ==
  IF ~IsDict(meta_content)
  THEN [errors |-> errs \o Fail("Meta file content is not a valid dictionary",
                                None, file_path).errs,
        validation_passed |-> FALSE,
        log |-> <<>>]
  ELSE RunRules(validation_rules, meta_content, file_path,
                [errors |-> errs, validation_passed |-> TRUE, log |-> <<>>])

\* The descriptors the validator is run on. A descriptor is put together
\* from the top-level fields, API.layer, API.version.businessModels,
\* API.version.transactionNames, the other fields under API and the
\* contract owner; Absent stands for a key the descriptor does not hold.
Absent == [absent |-> TRUE]

Entry(key, v) == IF v = Absent THEN <<>> ELSE key :> v

TopPool ==
  {<<>>,
   [metaDataVersion |-> Str(<<"6", ".", "0", ".", "0">>), assetName |-> Str(<<"m", "y", "-", "a", "p", "i">>),
    assetVersion |-> Str(<<"1", ".", "0", ".", "0", ".", "7">>), autoIncrementAssetVersion |-> Bool(TRUE),
    contractFileName |-> Str(<<"a", "p", "i", ".", "y", "a", "m", "l">>), ignore |-> Bool(FALSE)],
   [metaDataVersion |-> Str(<<"5", ".", "9", ".", "9">>), assetName |-> Str(<<"M", "y", "_", "A", "p", "i">>),
    assetVersion |-> Str(<<"2", ".", "0", ".", "0">>), autoIncrementAssetVersion |-> Bool(FALSE),
    contractFileName |-> Str(<<>>), ignore |-> Bool(TRUE)],
   [metaDataVersion |-> Str(<<"6", ".", "x">>), assetName |-> Str(<<"a", "-", "-", "b", "-", "9">>),
    assetVersion |-> Num(1), autoIncrementAssetVersion |-> Str(<<"t", "r", "u", "e">>),
    contractFileName |-> None, ignore |-> Str(<<"n", "o">>)],
   [metaDataVersion |-> Deep, assetName |-> Str(<<"m", "y", "-", "a", "p", "i">>),
    assetVersion |-> Deep, autoIncrementAssetVersion |-> Deep,
    contractFileName |-> Deep, ignore |-> Deep]}

LayerPool == {Absent, Str(<<"p", "A", "P", "I">>), Str(<<"s", "A", "P", "I">>), Str(<<"x", "A", "P", "I">>), Str(<<"P", "A", "P", "I">>)}

BusinessModelsPool ==
  {Absent, List(<<>>),
   List(<<Dict([name |-> Str(<<"W", "P", "B", "-", "C", "I", "D", "M">>)])>>),
   List(<<Dict([name |-> Str(<<"O", "T", "H", "E", "R">>)]), Dict([name |-> Str(<<"W", "P", "B", "-", "C", "I", "D", "M">>)])>>),
   Str(<<"W", "P", "B", "-", "C", "I", "D", "M">>),
   List(<<Dict([name |-> Str(<<"O", "T", "H", "E", "R">>)])>>),
   List(<<Str(<<"W", "P", "B", "-", "C", "I", "D", "M">>)>>)}

TransactionNamesPool == {Absent, List(<<>>), List(<<Str(<<"g", "e", "t", "A", "c", "c", "o", "u", "n", "t">>)>>)}

\* The other fields under API: [api, version].
RestPool ==
  {[api |-> <<>>, version |-> <<>>],
   [api |-> [audience |-> Str(<<"I", "n", "t", "e", "r", "n", "a", "l">>),
             contract |-> Dict([GBGF |-> Str(<<"W", "P", "B">>)])],
    version |-> [contractVersion |-> Str(<<"v", "1", ".", "2">>), status |-> Str(<<"l", "i", "v", "e">>),
                 privateAPI |-> Bool(FALSE), apiStyle |-> Str(<<"O", "T", "H", "E", "R">>),
                 implementationFramework |-> Str(<<"C", "A", "R", "B", "O", "N">>),
                 architecturalStyle |-> Str(<<"R", "E", "S", "T">>),
                 dataClassification |-> Str(<<"i", "n", "t", "e", "r", "n", "a", "l">>)]],
   [api |-> [audience |-> Str(<<"i", "n", "t", "e", "r", "n", "a", "l">>),
             contract |-> Dict([GBGF |-> Str(<<>>)])],
    version |-> [contractVersion |-> Str(<<"1">>), status |-> Str(<<"L", "I", "V", "E">>),
                 privateAPI |-> None, apiStyle |-> Num(2),
                 implementationFramework |-> Str(<<>>),
                 architecturalStyle |-> Str(<<"r", "e", "s", "t">>),
                 dataClassification |-> List(<<>>)]],
   [api |-> [audience |-> Deep, contract |-> Dict([GBGF |-> Deep])],
    version |-> [contractVersion |-> Str(<<"1", ".", "0">>), status |-> Deep,
                 privateAPI |-> Deep, apiStyle |-> Str(<<"O", "B", "I", "E">>),
                 implementationFramework |-> Deep,
                 architecturalStyle |-> Str(<<"S", "O", "A", "P">>),
                 dataClassification |-> Deep]]}

OwnerDict ==
  Dict([serviceLine |-> Str(<<"C", "a", "r", "d", "s">>), teamName |-> Str(<<"C", "o", "r", "e">>),
        teamEmailAddress |-> Str(<<"c", "o", "r", "e", "@", "e", "x", "a", "m", "p", "l", "e", ".", "o", "r", "g">>), GBGF |-> Str(<<"R", "B", "W", "M">>)])

\* The contract owner: [api, top], under API or at the top level.
OwnerPool ==
  {[api |-> <<>>, top |-> <<>>],
   [api |-> [contractOwner |-> OwnerDict], top |-> <<>>],
   [api |-> [contractOwner |-> Dict([serviceLine |-> Str(<<>>)])],
    top |-> [contractOwner |-> OwnerDict]]}

Descriptor(top, layer, business_models, transaction_names, rest, owner) ==
  LET version == Entry("businessModels", business_models)
                   @@ Entry("transactionNames", transaction_names) @@ rest.version
      api == Entry("layer", layer)
               @@ (IF DOMAIN version = {} THEN <<>> ELSE "version" :> Dict(version))
               @@ rest.api @@ owner.api
  IN Dict(top @@ (IF DOMAIN api = {} THEN <<>> ELSE "API" :> Dict(api)) @@ owner.top)

\* The fully empty descriptor {}.
EmptyDescriptor == Dict(<<>>)

\* {"API": {"layer": "pAPI", "version": {"businessModels": []}}}
PapiScenario ==
  Dict([API |-> Dict([layer |-> Str(<<"p", "A", "P", "I">>),
                      version |-> Dict([businessModels |-> List(<<>>)])])])

\* Contents that are no mapping.
NonMappings == {List(<<>>), Str(<<"l", "a", "y", "e", "r", ":", " ", "p", "A", "P", "I">>)}

MetaInputs ==
  {Descriptor(top, layer, business_models, transaction_names, rest, owner) :
     top \in TopPool, layer \in LayerPool, business_models \in BusinessModelsPool,
     transaction_names \in TransactionNamesPool, rest \in RestPool, owner \in OwnerPool}
    \cup NonMappings

MetaPath == <<"a", "p", "i", ".", "m", "e", "t", "a">>

MetaInit ==
  /\ metaIn \in MetaInputs
  /\ errors = <<>>
  /\ metaRet = None
  /\ ruleLog = <<>>
  /\ metaPc = "input"

\* validator.validate_meta_content(meta_content, file_path)
ValidateMetaContent ==
  /\ metaPc = "input"
  /\ \E r \in {validate_meta_content(errors, metaIn, MetaPath)} :
       /\ errors' = r.errors
       /\ metaRet' = r.validation_passed
       /\ ruleLog' = r.log
  /\ metaPc' = "done"
  /\ UNCHANGED <<metaIn, scanVars, diffVars, exclVars, pushVars, entVars, apiVars, genieVars>>

-----------------------------------------------------------------------------
(* 4.5 Exclusion Engine: the filters of the repository scan                *)

\* Paths that `git ls-files` may list.
PathPool ==
  <<<<"x", ".", "p", "y">>, <<"s", "r", "c", "/", "a", "p", "p", ".", "p", "y">>, <<"s", "r", "c", "/", "f", "o", "o">>, <<"a", "p", "i", ".", "m", "e", "t", "a">>, <<"d", "o", "c", "s", "/", "l", "o", "g", "o", ".", "P", "N", "G">>, <<"b", "u", "i", "l", "d", "/", "o", "u", "t", ".", "t", "x", "t">>,
    <<"s", "r", "c", "/", "t", "e", "s", "t", "_", "u", "t", "i", "l", "s", ".", "p", "y">>, <<"l", "i", "b", "/", "a", ".", "j", "a", "r">>, <<"s", "r", "c", "/", "l", "a", "t", "e", "s", "t", "/", "r", "u", "n", ".", "s", "h">>, <<"R", "E", "A", "D", "M", "E", ".", "m", "d">>, <<".", "g", "i", "t", "i", "g", "n", "o", "r", "e">>,
    <<"n", "o", "d", "e", "_", "m", "o", "d", "u", "l", "e", "s", "/", "x", ".", "j", "s">>, <<"a", "/", "b", ".", "c", "/", "d">>, <<"s", "r", "c", "/", ".", "e", "n", "v">>, <<"c", "o", "n", "f", "/", "a", "p", "p", ".", "y", "a", "m", "l">>, <<"t", "e", "s", "t", "s", "/", "a", ".", "p", "y">>,
    <<"M", "a", "k", "e", "f", "i", "l", "e">>, <<"s", "o">>, <<"d", "a", "t", "a", ".", "t", "a", "r", ".", "g", "z">>, <<"s", "r", "c", "/", "C", "o", "n", "t", "e", "s", "t", ".", "j", "a", "v", "a">>, <<"a", ".", "P", "D", "F">>, <<"v", "e", "n", "d", "o", "r">>,
    <<"x", "/", "v", "e", "n", "d", "o", "r", "/", "y">>, <<"d", "e", "m", "o">>, <<"s", "r", "c", "/", ".", ".", "a">>, <<"d", "i", "s", "t", ".", "p", "y">>, <<"a", "/", ".", ".">>, <<"f", ".", "p", "y">>, <<"s", "r", "c", "/", "m", "y", "t", "e", "s", "t", "s", "/", "a", ".", "p", "y">>,
    <<"s", "r", "c", "/", "a", ".", "l", "o", "g">>, <<"a", "t", "t", "e", "s", "t", ".", "t", "x", "t">>, <<"a", ".">>, <<"b", "/", ".", "g", "i", "t", "/", "c", "o", "n", "f", "i", "g">>>>

\* The outputs of `git ls-files`: one path, or two neighbours of PathPool.
TrackedLists ==
  {<<PathPool[i]>> : i \in DOMAIN PathPool}
    \cup {<<PathPool[i], PathPool[i + 1]>> : i \in 1..(Len(PathPool) - 1)}

\* Both filters are pure: their verdicts on the paths are computed once.
FilterTable ==
  [f \in Range(PathPool) |->
     [hooks |-> should_exclude_file(f), genie |-> GenieExcludes(f)]]

\* filtered_files of the hooks variant's scan_repository
filtered_files(files, verdict) == SelectSeq(files, LAMBDA f : ~verdict[f].hooks)

\* files, after the filter of the secretgenie variant's scan_repository
genie_files(files, verdict) == SelectSeq(files, LAMBDA f : ~verdict[f].genie)

ExclInit ==
  /\ exclIn \in TrackedLists
  /\ exclKept = <<>>
  /\ exclPc = "input"

\* scan_repository of each variant, up to the list of files it goes on to scan.
FilterTrackedFiles ==
  /\ exclPc = "input"
  /\ \E verdict \in {FilterTable} :
       exclKept' = [hooks |-> filtered_files(exclIn, verdict),
                    genie |-> genie_files(exclIn, verdict)]
  /\ exclPc' = "done"
  /\ UNCHANGED <<exclIn, scanVars, diffVars, metaVars, pushVars, entVars, apiVars, genieVars>>

-----------------------------------------------------------------------------
(* 4.7 Version-control fallback chain: get_pushed_files                    *)

\* What one command of the chain does in a given repository:
\*   "files" / "empty"  it succeeds and lists files / lists nothing
\*   "zero" / "pos"     it succeeds and counts no / some commits
\*   "exists"/"absent"  ls-remote succeeds and lists / does not list the branch
\*   "cpe"              subprocess.CalledProcessError (git exits non-zero)
\*   "err"              another exception (git cannot be started, the output
\*                      cannot be decoded, the count is not a number)
GitEnvs ==
  [marker : {"missing", "hash"},
   diff_last_pushed : {"files", "empty", "cpe", "err"},
   rev_list_upstream : {"zero", "pos", "cpe", "err"},
   diff_upstream : {"files", "empty", "cpe", "err"},
   rev_parse_branch : {"ok", "err"},
   ls_remote : {"exists", "absent", "cpe", "err"},
   rev_list_head : {"zero", "pos", "err"},
   ls_files : {"files", "empty", "err"},
   diff_tree : {"files", "empty", "cpe", "err"},
   ls_files_standard : {"files", "empty", "err"}]

\* [f for f in result.stdout.strip().split('\n') if f]
ListedFiles(outcome) == IF outcome = "files" THEN <<F_app>> ELSE <<>>

\* The function returns files, having attempted the levels tried.
Return(files, tried) == [raised |-> FALSE, files |-> files, tried |-> tried]

\* An exception leaves the body of the outer try.
Raise(tried) == [raised |-> TRUE, files |-> <<>>, tried |-> tried]

\* pre_push.get_last_pushed_commit
get_last_pushed_commit(env) == IF env.marker = "hash" THEN Some("hash") ELSE None

\* "If all else fails, get all tracked files"
AllTrackedFiles(env, tried) ==
  Return(ListedFiles(env.ls_files_standard), Append(tried, "all_tracked_files"))

\* "Last resort, get files in latest commit"
LatestCommitFiles(env, tried) ==
  CASE env.diff_tree \in {"files", "empty"} ->
         Return(ListedFiles(env.diff_tree), Append(tried, "latest_commit"))
    [] env.diff_tree = "cpe" -> AllTrackedFiles(env, Append(tried, "latest_commit"))
    [] env.diff_tree = "err" -> Raise(Append(tried, "latest_commit"))

\* The branch check: all tracked files when the branch has no remote.
NoRemoteBranchFiles(env, tried) ==
  IF /\ env.rev_parse_branch = "ok"
     /\ env.ls_remote \in {"absent", "cpe"}
     /\ env.rev_list_head # "err"
     /\ (env.rev_list_head = "zero" \/ env.ls_files # "err")
  THEN Return(IF env.rev_list_head = "zero" THEN <<>> ELSE ListedFiles(env.ls_files),
              Append(tried, "no_remote_branch"))
  ELSE LatestCommitFiles(env, Append(tried, "no_remote_branch"))

\* git diff --name-only <<"u">>..HEAD
UpstreamDiffFiles(env, tried) ==
  CASE env.diff_upstream = "files" ->
         Return(ListedFiles(env.diff_upstream), Append(tried, "upstream_diff"))
    [] env.diff_upstream \in {"empty", "cpe"} ->
         NoRemoteBranchFiles(env, Append(tried, "upstream_diff"))
    [] env.diff_upstream = "err" -> Raise(Append(tried, "upstream_diff"))

\* git rev-list --count <<"u">>..HEAD
UpstreamCount(env, tried) ==
  CASE env.rev_list_upstream = "zero" -> Return(<<>>, tried)
    [] env.rev_list_upstream \in {"pos", "cpe"} -> UpstreamDiffFiles(env, tried)
    [] env.rev_list_upstream = "err" -> Raise(tried)

\* The body of the outer try. The level of the last-pushed marker is
\* attempted by looking for the marker, whether or not there is one.
PushedFilesBody(env) ==
  IF get_last_pushed_commit(env) # None
  THEN CASE env.diff_last_pushed = "files" ->
              Return(ListedFiles(env.diff_last_pushed), <<"last_pushed_diff">>)
         [] env.diff_last_pushed \in {"empty", "cpe"} ->
              UpstreamCount(env, <<"last_pushed_diff">>)
         [] env.diff_last_pushed = "err" -> Raise(<<"last_pushed_diff">>)
  ELSE UpstreamCount(env, <<"last_pushed_diff">>)

\* pre_push.get_pushed_files: what its caller sees, and the levels it tried.
get_pushed_files(env) ==
  The({IF body.raised THEN [raised |-> FALSE, files |-> <<>>, tried |-> body.tried]
       ELSE body : body \in {PushedFilesBody(env)}})

PushInit ==
  /\ gitEnv \in GitEnvs
  /\ pushRet = <<>>
  /\ pushTried = <<>>
  /\ pushPc = "input"

\* pushed_files = get_pushed_files()
GetPushedFiles ==
  /\ pushPc = "input"
  /\ \E r \in {get_pushed_files(gitEnv)} :
       /\ pushRet' = [raised |-> r.raised, files |-> r.files]
       /\ pushTried' = r.tried
  /\ pushPc' = "done"
  /\ UNCHANGED <<gitEnv, scanVars, diffVars, metaVars, exclVars, entVars, apiVars, genieVars>>

-----------------------------------------------------------------------------
(* 4.1 Entropy Scorer in binary64                                          *)
(*                                                                         *)
(* calculate_entropy returns a float. A binary64 value is written as the   *)
(* text Python prints for it, and the arithmetic of the function on the    *)
(* values that occur for texts of at most 8 characters with at most three  *)
(* distinct characters is tabulated.                                       *)

\* The texts whose entropy is taken have at most MaxEntropyLen characters.
MaxEntropyLen == 6

EntropyAlphabet == {"a", "b", "c"}

\* TermF64[n][f]: (f / length) * math.log2(f / length) for length = n.
TermF64 ==
  <<<<"0.0">>,
    <<"-0.5", "0.0">>,
    <<"-0.5283208335737187", "-0.38997500048077083", "0.0">>,
    <<"-0.5", "-0.5", "-0.31127812445913283", "0.0">>,
    <<"-0.46438561897747244", "-0.5287712379549449", "-0.44217935649972373", "-0.2575424759098898", "0.0">>,
    <<"-0.430827083453526", "-0.5283208335737187", "-0.5", "-0.38997500048077083", "-0.21919533819482817", "0.0">>,
    <<"-0.40105070315108626", "-0.5163871205878868", "-0.5238824662870492", "-0.46134566974720237", "-0.3467334479787441", "-0.19062207543124116", "0.0">>,
    <<"-0.375", "-0.5", "-0.5306390622295665", "-0.5", "-0.4237949406953986", "-0.31127812445913283", "-0.1685644431995964", "0.0">>>>

\* <<x, y, x + y>> in binary64, round to nearest.
AddF64 ==
  {<<"-0.1685644431995964", "-0.375", "-0.5435644431995964">>,
   <<"-0.19062207543124116", "-0.40105070315108626", "-0.5916727785823275">>,
   <<"-0.21919533819482817", "-0.430827083453526", "-0.6500224216483541">>,
   <<"-0.2575424759098898", "-0.46438561897747244", "-0.7219280948873623">>,
   <<"-0.31127812445913283", "-0.375", "-0.6862781244591328">>,
   <<"-0.31127812445913283", "-0.5", "-0.8112781244591328">>,
   <<"-0.3467334479787441", "-0.40105070315108626", "-0.7477841511298304">>,
   <<"-0.3467334479787441", "-0.5163871205878868", "-0.863120568566631">>,
   <<"-0.375", "-0.1685644431995964", "-0.5435644431995964">>,
   <<"-0.375", "-0.31127812445913283", "-0.6862781244591328">>,
   <<"-0.375", "-0.375", "-0.75">>,
   <<"-0.375", "-0.4237949406953986", "-0.7987949406953986">>,
   <<"-0.375", "-0.5", "-0.875">>,
   <<"-0.375", "-0.5306390622295665", "-0.9056390622295665">>,
   <<"-0.38997500048077083", "-0.430827083453526", "-0.8208020839342969">>,
   <<"-0.38997500048077083", "-0.5283208335737187", "-0.9182958340544896">>,
   <<"-0.40105070315108626", "-0.19062207543124116", "-0.5916727785823275">>,
   <<"-0.40105070315108626", "-0.3467334479787441", "-0.7477841511298304">>,
   <<"-0.40105070315108626", "-0.40105070315108626", "-0.8021014063021725">>,
   <<"-0.40105070315108626", "-0.46134566974720237", "-0.8623963728982886">>,
   <<"-0.40105070315108626", "-0.5163871205878868", "-0.9174378237389731">>,
   <<"-0.40105070315108626", "-0.5238824662870492", "-0.9249331694381354">>,
   <<"-0.4237949406953986", "-0.375", "-0.7987949406953986">>,
   <<"-0.4237949406953986", "-0.5", "-0.9237949406953986">>,
   <<"-0.4237949406953986", "-0.5306390622295665", "-0.954434002924965">>,
   <<"-0.430827083453526", "-0.21919533819482817", "-0.6500224216483541">>,
   <<"-0.430827083453526", "-0.38997500048077083", "-0.8208020839342969">>,
   <<"-0.430827083453526", "-0.430827083453526", "-0.861654166907052">>,
   <<"-0.430827083453526", "-0.5", "-0.9308270834535259">>,
   <<"-0.430827083453526", "-0.5283208335737187", "-0.9591479170272448">>,
   <<"-0.44217935649972373", "-0.46438561897747244", "-0.9065649754771962">>,
   <<"-0.44217935649972373", "-0.5287712379549449", "-0.9709505944546686">>,
   <<"-0.46134566974720237", "-0.40105070315108626", "-0.8623963728982886">>,
   <<"-0.46134566974720237", "-0.5163871205878868", "-0.9777327903350892">>,
   <<"-0.46134566974720237", "-0.5238824662870492", "-0.9852281360342515">>,
   <<"-0.46438561897747244", "-0.2575424759098898", "-0.7219280948873623">>,
   <<"-0.46438561897747244", "-0.44217935649972373", "-0.9065649754771962">>,
   <<"-0.46438561897747244", "-0.46438561897747244", "-0.9287712379549449">>,
   <<"-0.46438561897747244", "-0.5287712379549449", "-0.9931568569324173">>,
   <<"-0.5", "-0.31127812445913283", "-0.8112781244591328">>,
   <<"-0.5", "-0.375", "-0.875">>,
   <<"-0.5", "-0.4237949406953986", "-0.9237949406953986">>,
   <<"-0.5", "-0.430827083453526", "-0.9308270834535259">>,
   <<"-0.5", "-0.5", "-1.0">>,
   <<"-0.5", "-0.5283208335737187", "-1.0283208335737188">>,
   <<"-0.5", "-0.5306390622295665", "-1.0306390622295665">>,
   <<"-0.5163871205878868", "-0.3467334479787441", "-0.863120568566631">>,
   <<"-0.5163871205878868", "-0.40105070315108626", "-0.9174378237389731">>,
   <<"-0.5163871205878868", "-0.46134566974720237", "-0.9777327903350892">>,
   <<"-0.5163871205878868", "-0.5163871205878868", "-1.0327742411757737">>,
   <<"-0.5163871205878868", "-0.5238824662870492", "-1.040269586874936">>,
   <<"-0.5238824662870492", "-0.40105070315108626", "-0.9249331694381354">>,
   <<"-0.5238824662870492", "-0.46134566974720237", "-0.9852281360342515">>,
   <<"-0.5238824662870492", "-0.5163871205878868", "-1.040269586874936">>,
   <<"-0.5238824662870492", "-0.5238824662870492", "-1.0477649325740983">>,
   <<"-0.5283208335737187", "-0.38997500048077083", "-0.9182958340544896">>,
   <<"-0.5283208335737187", "-0.430827083453526", "-0.9591479170272448">>,
   <<"-0.5283208335737187", "-0.5", "-1.0283208335737188">>,
   <<"-0.5283208335737187", "-0.5283208335737187", "-1.0566416671474375">>,
   <<"-0.5287712379549449", "-0.44217935649972373", "-0.9709505944546686">>,
   <<"-0.5287712379549449", "-0.46438561897747244", "-0.9931568569324173">>,
   <<"-0.5287712379549449", "-0.5287712379549449", "-1.0575424759098897">>,
   <<"-0.5306390622295665", "-0.375", "-0.9056390622295665">>,
   <<"-0.5306390622295665", "-0.4237949406953986", "-0.954434002924965">>,
   <<"-0.5306390622295665", "-0.5", "-1.0306390622295665">>,
   <<"-0.5306390622295665", "-0.5306390622295665", "-1.061278124459133">>,
   <<"-0.6862781244591328", "-0.375", "-1.061278124459133">>,
   <<"-0.7477841511298304", "-0.40105070315108626", "-1.1488348542809166">>,
   <<"-0.75", "-0.31127812445913283", "-1.061278124459133">>,
   <<"-0.7987949406953986", "-0.5", "-1.2987949406953985">>,
   <<"-0.8021014063021725", "-0.3467334479787441", "-1.1488348542809166">>,
   <<"-0.8208020839342969", "-0.430827083453526", "-1.2516291673878228">>,
   <<"-0.861654166907052", "-0.38997500048077083", "-1.2516291673878228">>,
   <<"-0.8623963728982886", "-0.5163871205878868", "-1.3787834934861753">>,
   <<"-0.875", "-0.4237949406953986", "-1.2987949406953985">>,
   <<"-0.875", "-0.5306390622295665", "-1.4056390622295665">>,
   <<"-0.9056390622295665", "-0.5", "-1.4056390622295665">>,
   <<"-0.9065649754771962", "-0.46438561897747244", "-1.3709505944546687">>,
   <<"-0.9174378237389731", "-0.46134566974720237", "-1.3787834934861753">>,
   <<"-0.9237949406953986", "-0.375", "-1.2987949406953985">>,
   <<"-0.9249331694381354", "-0.5238824662870492", "-1.4488156357251847">>,
   <<"-0.9287712379549449", "-0.44217935649972373", "-1.3709505944546687">>,
   <<"-0.9308270834535259", "-0.5283208335737187", "-1.4591479170272446">>,
   <<"-0.9591479170272448", "-0.5", "-1.4591479170272448">>,
   <<"-0.9777327903350892", "-0.40105070315108626", "-1.3787834934861753">>,
   <<"-0.9931568569324173", "-0.5287712379549449", "-1.5219280948873621">>,
   <<"-1.0", "-0.5", "-1.5">>,
   <<"-1.0283208335737188", "-0.430827083453526", "-1.4591479170272448">>,
   <<"-1.0306390622295665", "-0.375", "-1.4056390622295665">>,
   <<"-1.0306390622295665", "-0.5306390622295665", "-1.561278124459133">>,
   <<"-1.0327742411757737", "-0.5238824662870492", "-1.5566567074628228">>,
   <<"-1.040269586874936", "-0.5163871205878868", "-1.5566567074628228">>,
   <<"-1.0477649325740983", "-0.40105070315108626", "-1.4488156357251847">>,
   <<"-1.0566416671474375", "-0.5283208335737187", "-1.584962500721156">>,
   <<"-1.0575424759098897", "-0.46438561897747244", "-1.5219280948873621">>,
   <<"-1.061278124459133", "-0.5", "-1.561278124459133">>}

\* <<x, -x>>
NegF64 ==
  {<<"-0.5435644431995964", "0.5435644431995964">>,
   <<"-0.5916727785823275", "0.5916727785823275">>,
   <<"-0.6500224216483541", "0.6500224216483541">>,
   <<"-0.7219280948873623", "0.7219280948873623">>,
   <<"-0.8112781244591328", "0.8112781244591328">>,
   <<"-0.863120568566631", "0.863120568566631">>,
   <<"-0.9182958340544896", "0.9182958340544896">>,
   <<"-0.954434002924965", "0.954434002924965">>,
   <<"-0.9709505944546686", "0.9709505944546686">>,
   <<"-0.9852281360342515", "0.9852281360342515">>,
   <<"-1.0", "1.0">>,
   <<"-1.061278124459133", "1.061278124459133">>,
   <<"-1.1488348542809166", "1.1488348542809166">>,
   <<"-1.2516291673878228", "1.2516291673878228">>,
   <<"-1.2987949406953985", "1.2987949406953985">>,
   <<"-1.3709505944546687", "1.3709505944546687">>,
   <<"-1.3787834934861753", "1.3787834934861753">>,
   <<"-1.4056390622295665", "1.4056390622295665">>,
   <<"-1.4488156357251847", "1.4488156357251847">>,
   <<"-1.4591479170272446", "1.4591479170272446">>,
   <<"-1.4591479170272448", "1.4591479170272448">>,
   <<"-1.5", "1.5">>,
   <<"-1.5219280948873621", "1.5219280948873621">>,
   <<"-1.5566567074628228", "1.5566567074628228">>,
   <<"-1.561278124459133", "1.561278124459133">>,
   <<"-1.584962500721156", "1.584962500721156">>,
   <<"0.0", "-0.0">>}


AddOf(x, y) == (CHOOSE r \in AddF64 : r[1] = x /\ r[2] = y)[3]

NegOf(x) == (CHOOSE r \in NegF64 : r[1] = x)[2]

RECURSIVE SumF64(_, _, _)
\* sum(...) over the counts from the second on, acc being the sum so far;
\* sum starts from the integer 0, and 0 + x is x.
SumF64(acc, counts, n) ==
  IF counts = <<>> THEN acc
  ELSE SumF64(AddOf(acc, TermF64[n][Head(counts)]), Tail(counts), n)

\* -sum(f/length * math.log2(f/length) for f in counts)
EntropyOfCounts(counts, n) ==
  NegOf(SumF64(TermF64[n][Head(counts)], Tail(counts), n))

RECURSIVE FirstSeenFrom(_, _)
\* The keys of freq in the order of their insertion: the distinct
\* characters of value in the order of their first occurrence, from
\* position p on.
FirstSeenFrom(value, p) ==
  IF p > Len(value) THEN <<>>
  ELSE (IF \A j \in 1..(p - 1) : value[j] # value[p] THEN <<value[p]>> ELSE <<>>)
         \o FirstSeenFrom(value, p + 1)

FirstSeen(value) == FirstSeenFrom(value, 1)

\* SecretScanner.calculate_entropy in binary64.
calculate_entropy_f64(value) ==
  IF value = <<>> THEN "0.0"
  ELSE EntropyOfCounts([i \in DOMAIN FirstSeen(value) |-> Freq(value, FirstSeen(value)[i])],
                       Len(value))

\* utils.calculate_entropy in binary64; order is the order in which
\* set(text) yields the characters, which the hashing of the run decides.
utils_calculate_entropy(text, order) ==
  IF text = <<>> THEN "0"
  ELSE EntropyOfCounts([i \in DOMAIN order |-> Freq(text, order[i])], Len(text))

\* x == y of two floats.
EqF64(x, y) == x = y \/ ({x, y} \subseteq {"0", "0.0", "-0.0"})

\* The texts of at most n characters over the alphabet.
TextsUpTo(n) == UNION {[1..k -> EntropyAlphabet] : k \in 0..n}

\* The orders in which a set of characters can be iterated.
OrdersOf(chars) ==
  {o \in [1..Cardinality(chars) -> chars] : \A i, j \in DOMAIN o : o[i] = o[j] => i = j}

EntropyInit ==
  /\ \E text \in TextsUpTo(MaxEntropyLen) :
       \E order \in OrdersOf(Range(text)) : entIn = [text |-> text, order |-> order]
  /\ entOut = [scanner |-> None, utils |-> None]

\* SecretScanner().calculate_entropy(text)
ScannerEntropy ==
  /\ entOut.scanner = None
  /\ entOut' = [entOut EXCEPT !.scanner = Some(calculate_entropy_f64(entIn.text))]
  /\ UNCHANGED <<entIn, scanVars, diffVars, metaVars, exclVars, pushVars, apiVars, genieVars>>

\* utils.calculate_entropy(text)
UtilsEntropy ==
  /\ entOut.utils = None
  /\ entOut' = [entOut EXCEPT !.utils = Some(utils_calculate_entropy(entIn.text, entIn.order))]
  /\ UNCHANGED <<entIn, scanVars, diffVars, metaVars, exclVars, pushVars, apiVars, genieVars>>

-----------------------------------------------------------------------------
(* 4.6 Meta file reader (hooks/validation/meta_file_finder.py)             *)

\* The white space of str.strip() on a text that holds line breaks.
WhiteSpace == Space \cup {"\n", "\r"}

\* content.strip()
StripText(s) ==
  IF \A i \in 1..Len(s) : s[i] \in WhiteSpace THEN <<>>
  ELSE LET a == CHOOSE i \in 1..Len(s) :
                  s[i] \notin WhiteSpace /\ \A j \in 1..(i - 1) : s[j] \in WhiteSpace
           b == CHOOSE i \in 1..Len(s) :
                  s[i] \notin WhiteSpace /\ \A j \in (i + 1)..Len(s) : s[j] \in WhiteSpace
       IN SubSeq(s, a, b)

\* s[p:p+1] with a 1-based p: the character at p, or "" past the end.
At(s, p) == IF p >= 1 /\ p <= Len(s) THEN s[p] ELSE ""

RECURSIVE JoinChars(_)
\* The string of a sequence of characters, as a key of a dict.
JoinChars(s) == IF s = <<>> THEN "" ELSE Head(s) \o JoinChars(Tail(s))

\* A float, kept as the text it was read from.
Float(s) == [t |-> "float", v |-> s]

\* What a step of the JSON decoder hands back: the value and the position
\* after it, or JSONDecodeError.
JSONDecodeError == [ok |-> FALSE]

Decoded(v, end) == [ok |-> TRUE, v |-> v, end |-> end]

RECURSIVE SkipWs(_, _)
\* WHITESPACE.match(s, p).end(): json's white space is " \t\n\r".
SkipWs(s, p) ==
  IF p <= Len(s) /\ s[p] \in {" ", "\t", "\n", "\r"} THEN SkipWs(s, p + 1) ELSE p

\* json.decoder.BACKSLASH, without \b and \f; \uXXXX is not modelled either
\* (no text below holds these three escapes).
BACKSLASH ==
  [c \in {"\"", "\\", "/", "n", "r", "t"} |->
     CASE c = "n" -> "\n" [] c = "r" -> "\r" [] c = "t" -> "\t" [] OTHER -> c]

RECURSIVE scanstring(_, _, _)
\* json.decoder.scanstring(s, end, strict=True), p standing after the
\* opening quote and acc being the characters read: a control character
\* in the string, an unknown escape and a missing end quote are errors.
scanstring(s, p, acc) ==
  IF p > Len(s) THEN JSONDecodeError
  ELSE IF s[p] = "\"" THEN Decoded(acc, p + 1)
  ELSE IF s[p] = "\\"
  THEN IF At(s, p + 1) \in DOMAIN BACKSLASH
       THEN scanstring(s, p + 2, Append(acc, BACKSLASH[At(s, p + 1)]))
       ELSE JSONDecodeError
  ELSE IF s[p] \in {"\n", "\r", "\t"} THEN JSONDecodeError
  ELSE scanstring(s, p + 1, Append(acc, s[p]))

RECURSIVE DigitsEnd(_, _)
\* The position after the run of digits that starts at p.
DigitsEnd(s, p) == IF p <= Len(s) /\ s[p] \in Digit THEN DigitsEnd(s, p + 1) ELSE p

\* json.scanner.NUMBER_RE, (-?(?:0|[1-9]\d*))(\.\d+)?([eE][-+]?\d+)?,
\* matched at p: an int without fraction and exponent, else a float.
match_number(s, p) ==
  LET a == IF At(s, p) = "-" THEN p + 1 ELSE p
      intEnd == IF At(s, a) = "0" THEN a + 1 ELSE DigitsEnd(s, a)
      fracEnd == IF At(s, intEnd) = "." /\ At(s, intEnd + 1) \in Digit
                 THEN DigitsEnd(s, intEnd + 1) ELSE intEnd
      e == IF At(s, fracEnd + 1) \in {"+", "-"} THEN fracEnd + 2 ELSE fracEnd + 1
      expEnd == IF At(s, fracEnd) \in {"e", "E"} /\ At(s, e) \in Digit
                THEN DigitsEnd(s, e) ELSE fracEnd
  IN IF intEnd = a THEN JSONDecodeError
     ELSE IF expEnd = intEnd
     THEN Decoded(Num(IF a = p THEN ParseInt(s, a, 0) ELSE 0 - ParseInt(s, a, 0)), intEnd)
     ELSE Decoded(Float(SubSeq(s, p, expEnd - 1)), expEnd)

\* The constants of the scanner, in the order it tries them.
ScanConstant(s, p) ==
  IF OccursAt(<<"n", "u", "l", "l">>, s, p) THEN Decoded(None, p + 4)
  ELSE IF OccursAt(<<"t", "r", "u", "e">>, s, p) THEN Decoded(Bool(TRUE), p + 4)
  ELSE IF OccursAt(<<"f", "a", "l", "s", "e">>, s, p) THEN Decoded(Bool(FALSE), p + 5)
  ELSE IF match_number(s, p).ok THEN match_number(s, p)
  ELSE IF OccursAt(<<"N", "a", "N">>, s, p) THEN Decoded(Float(<<"N", "a", "N">>), p + 3)
  ELSE IF OccursAt(<<"I", "n", "f", "i", "n", "i", "t", "y">>, s, p)
  THEN Decoded(Float(<<"I", "n", "f", "i", "n", "i", "t", "y">>), p + 8)
  ELSE IF OccursAt(<<"-", "I", "n", "f", "i", "n", "i", "t", "y">>, s, p)
  THEN Decoded(Float(<<"-", "I", "n", "f", "i", "n", "i", "t", "y">>), p + 9)
  ELSE JSONDecodeError

RECURSIVE scan_once(_, _)
RECURSIVE JSONPairs(_, _, _)
RECURSIVE JSONItems(_, _, _)

\* json.decoder.JSONObject, p standing after "{".
JSONObject(s, p) ==
  IF At(s, SkipWs(s, p)) = "}" THEN Decoded(Dict(<<>>), SkipWs(s, p) + 1)
  ELSE IF At(s, SkipWs(s, p)) # "\"" THEN JSONDecodeError
  ELSE JSONPairs(s, SkipWs(s, p) + 1, <<>>)

\* The `while True` of JSONObject, p standing after the opening quote of a
\* key and pairs being the dict of the pairs read: a key read twice keeps
\* its last value.
JSONPairs(s, p, pairs) ==
  The({IF ~key.ok \/ At(s, SkipWs(s, key.end)) # ":" THEN JSONDecodeError
       ELSE The({IF ~value.ok THEN JSONDecodeError
                 ELSE The({IF At(s, n) = "}"
                           THEN Decoded(Dict((JoinChars(key.v) :> value.v) @@ pairs), n + 1)
                           ELSE IF At(s, n) # "," \/ At(s, SkipWs(s, n + 1)) # "\""
                           THEN JSONDecodeError
                           ELSE JSONPairs(s, SkipWs(s, n + 1) + 1,
                                          (JoinChars(key.v) :> value.v) @@ pairs) :
                             n \in {SkipWs(s, value.end)}}) :
                   value \in {scan_once(s, SkipWs(s, SkipWs(s, key.end) + 1))}}) :
         key \in {scanstring(s, p, <<>>)}})

\* json.decoder.JSONArray, p standing after "[".
JSONArray(s, p) ==
  IF At(s, SkipWs(s, p)) = "]" THEN Decoded(List(<<>>), SkipWs(s, p) + 1)
  ELSE JSONItems(s, SkipWs(s, p), <<>>)

\* The `while True` of JSONArray, p standing at a value and values being
\* the values read.
JSONItems(s, p, values) ==
  The({IF ~value.ok THEN JSONDecodeError
       ELSE The({IF At(s, n) = "]" THEN Decoded(List(Append(values, value.v)), n + 1)
                 ELSE IF At(s, n) # "," THEN JSONDecodeError
                 ELSE JSONItems(s, SkipWs(s, n + 1), Append(values, value.v)) :
                   n \in {SkipWs(s, value.end)}}) :
         value \in {scan_once(s, p)}})

\* json.scanner.py_make_scanner's _scan_once(string, idx)
scan_once(s, p) ==
  IF At(s, p) = "\""
  THEN The({IF r.ok THEN Decoded(Str(r.v), r.end) ELSE JSONDecodeError :
              r \in {scanstring(s, p + 1, <<>>)}})
  ELSE IF At(s, p) = "{" THEN JSONObject(s, p + 1)
  ELSE IF At(s, p) = "[" THEN JSONArray(s, p + 1)
  ELSE ScanConstant(s, p)

\* json.loads(content): JSONDecoder.decode, which wants the text to hold
\* one value and white space around it.
json_loads(content) ==
  The({IF r.ok /\ SkipWs(content, r.end) = Len(content) + 1 THEN r
       ELSE JSONDecodeError :
         r \in {scan_once(content, SkipWs(content, 1))}})

\* content.split('\n'): the pieces between the line breaks.
SplitLines(content) ==
  The({[k \in 1..(Len(breaks) + 1) |->
          SubSeq(content,
                 IF k = 1 THEN 1 ELSE breaks[k - 1] + 1,
                 IF k > Len(breaks) THEN Len(content) ELSE breaks[k] - 1)] :
         breaks \in {SelectSeq([p \in 1..Len(content) |-> p],
                               LAMBDA p : content[p] = "\n")}})

\* MetaFileFinder._looks_like_json(content)
_looks_like_json(content) ==
  At(StripText(content), 1) \in {"{", "["}

RECURSIVE FirstContentLine(_)
\* The first of the lines that, stripped, is neither empty nor a comment
\* (stripped), or None.
FirstContentLine(lines) ==
  IF lines = <<>> THEN None
  ELSE IF Strip(Head(lines)) # <<>> /\ At(Strip(Head(lines)), 1) # "#"
  THEN Some(Strip(Head(lines)))
  ELSE FirstContentLine(Tail(lines))

\* MetaFileFinder._looks_like_yaml(content)
_looks_like_yaml(content) ==
  \E first \in {FirstContentLine(SplitLines(StripText(content)))} :
    /\ first # None
    /\ Contains(first.v, <<":">>)
    /\ At(first.v, 1) # "{"

\* str.strip(chars)
StripChars(s, chars) ==
  IF \A i \in 1..Len(s) : s[i] \in chars THEN <<>>
  ELSE LET a == CHOOSE i \in 1..Len(s) :
                  s[i] \notin chars /\ \A j \in 1..(i - 1) : s[j] \in chars
           b == CHOOSE i \in 1..Len(s) :
                  s[i] \notin chars /\ \A j \in (i + 1)..Len(s) : s[j] \in chars
       IN SubSeq(s, a, b)

\* value[1:-1]
Unquoted(value) == IF Len(value) < 2 THEN <<>> ELSE SubSeq(value, 2, Len(value) - 1)

\* value.startswith(q) and value.endswith(q) for a quote character q
Quoted(value, q) == value # <<>> /\ value[1] = q /\ value[Len(value)] = q

RECURSIVE NumRunEnd(_, _)
\* The position after the digits that start at p, where one "_" may stand
\* between two digits (p itself when no digit stands there).
NumRunEnd(s, p) ==
  IF At(s, p) \notin Digit THEN p
  ELSE IF At(s, p + 1) = "_" /\ At(s, p + 2) \in Digit THEN NumRunEnd(s, p + 2)
  ELSE NumRunEnd(s, p + 1)

\* int(value) does not raise ValueError: a sign or none, then digits.
IsIntText(value) ==
  LET a == IF At(value, 1) \in {"+", "-"} THEN 2 ELSE 1
  IN NumRunEnd(value, a) > a /\ NumRunEnd(value, a) = Len(value) + 1

\* int(value) of such a text
IntOfText(value) ==
  LET digits == RemoveAll(value, <<"_">>)
  IN IF At(value, 1) = "-" THEN 0 - ParseInt(digits, 2, 0)
     ELSE IF At(value, 1) = "+" THEN ParseInt(digits, 2, 0)
     ELSE ParseInt(digits, 1, 0)

\* float(value) does not raise ValueError, for a value that holds a ".":
\* a sign or none, digits with a point before, between or after them, and
\* an exponent or none.
IsFloatText(value) ==
  LET a == IF At(value, 1) \in {"+", "-"} THEN 2 ELSE 1
      i == NumRunEnd(value, a)
      f == IF At(value, i) = "." THEN NumRunEnd(value, i + 1) ELSE i
      e == IF At(value, f + 1) \in {"+", "-"} THEN f + 2 ELSE f + 1
      end == IF At(value, f) \in {"e", "E"} THEN NumRunEnd(value, e) ELSE f
  IN /\ i > a \/ f > i + 1
     /\ At(value, f) \in {"e", "E"} => end > e
     /\ end = Len(value) + 1

\* MetaFileFinder._parse_yaml_value(value)
_parse_yaml_value(value0) ==
  LET value == Strip(value0) IN
  IF Quoted(value, "\"") \/ Quoted(value, "'") THEN Str(Unquoted(value))
  ELSE IF LowerStr(value) \in {<<"t", "r", "u", "e">>, <<"y", "e", "s">>, <<"o", "n">>}
  THEN Bool(TRUE)
  ELSE IF LowerStr(value) \in {<<"f", "a", "l", "s", "e">>, <<"n", "o">>, <<"o", "f", "f">>}
  THEN Bool(FALSE)
  ELSE IF LowerStr(value) \in {<<"n", "u", "l", "l">>, <<"n", "o", "n", "e">>, <<"~">>}
  THEN None
  ELSE IF Contains(value, <<".">>)
  THEN (IF IsFloatText(value) THEN Float(value) ELSE Str(value))
  ELSE IF IsIntText(value) THEN Num(IntOfText(value))
  ELSE Str(value)

RECURSIVE SetAt(_, _, _, _)
\* d[path[1]]...[path[n]][key] = value on the nested dicts of d.
SetAt(d, path, key, value) ==
  IF path = <<>> THEN Dict((key :> value) @@ d.v)
  ELSE Dict((Head(path) :> SetAt(d.v[Head(path)], Tail(path), key, value)) @@ d.v)

RECURSIVE PopWhile(_, _)
\* while len(dict_stack) > 0 and indent <= dict_stack[-1][1]: dict_stack.pop()
PopWhile(dict_stack, indent) ==
  IF dict_stack # <<>> /\ indent <= dict_stack[Len(dict_stack)].indent
  THEN PopWhile(SubSeq(dict_stack, 1, Len(dict_stack) - 1), indent)
  ELSE dict_stack

\* One turn of the loop of _parse_simple_yaml on st = [result, dict_stack].
\* Each dict of dict_stack lies in the one below it (the first in result)
\* under the key that opened it, so dict_stack is kept as these keys with
\* their indentations.
YamlLine(st, line) ==
  LET stripped == Strip(line)
      indent == Len(line) - Len(LStripChars(line, Space))
      dict_stack == PopWhile(st.dict_stack, indent)
      path == [i \in 1..Len(dict_stack) |-> dict_stack[i].key]
      colon == Find(stripped, <<":">>)
      key == JoinChars(StripChars(Strip(Take(stripped, colon - 1)), {"\"", "'"}))
      value == Strip(Drop(stripped, colon))
  IN IF stripped = <<>> \/ stripped[1] = "#" THEN st
     ELSE IF colon = 0 THEN [result |-> st.result, dict_stack |-> dict_stack]
     ELSE IF value = <<>>
     THEN [result |-> SetAt(st.result, path, key, Dict(<<>>)),
           dict_stack |-> Append(dict_stack, [key |-> key, indent |-> indent])]
     ELSE [result |-> SetAt(st.result, path, key, _parse_yaml_value(value)),
           dict_stack |-> dict_stack]

RECURSIVE YamlLines(_, _, _, _)
\* `for line in lines` of _parse_simple_yaml, on the lines lo to hi: the
\* turns of the first half, then those of the second.
YamlLines(st, lines, lo, hi) ==
  IF lo > hi THEN st
  ELSE IF lo = hi THEN YamlLine(st, lines[lo])
  ELSE The({YamlLines(half, lines, (lo + hi) \div 2 + 1, hi) :
              half \in {YamlLines(st, lines, lo, (lo + hi) \div 2)}})

\* MetaFileFinder._parse_simple_yaml(content)
_parse_simple_yaml(content) ==
  The({YamlLines([result |-> Dict(<<>>), dict_stack |-> <<>>],
                 lines, 1, Len(lines)).result :
         lines \in {SplitLines(content)}})

\* The first of '=', ':' and ' ' that the line holds, or "".
Separator(line) ==
  IF Contains(line, <<"=">>) THEN "="
  ELSE IF Contains(line, <<":">>) THEN ":"
  ELSE IF Contains(line, <<" ">>) THEN " "
  ELSE ""

\* One turn of the loop of _parse_properties on the dict result.
PropertiesLine(result, line0) ==
  LET line == Strip(line0)
      at == Find(line, <<Separator(line)>>)
      key == Strip(Take(line, at - 1))
      value == Strip(Drop(line, at))
  IN IF line = <<>> \/ line[1] = "#" \/ StartsWith(line, <<"/", "/">>) THEN result
     ELSE IF Separator(line) = "" THEN (JoinChars(line) :> Str(<<>>)) @@ result
     ELSE IF Quoted(value, "\"") \/ Quoted(value, "'")
     THEN (JoinChars(key) :> Str(Unquoted(value))) @@ result
     ELSE (JoinChars(key) :> Str(value)) @@ result

RECURSIVE PropertiesLines(_, _, _, _)
\* `for line_num, line in enumerate(content.split('\n'), 1)`, on the lines
\* lo to hi: the turns of the first half, then those of the second.
PropertiesLines(result, lines, lo, hi) ==
  IF lo > hi THEN result
  ELSE IF lo = hi THEN PropertiesLine(result, lines[lo])
  ELSE The({PropertiesLines(half, lines, (lo + hi) \div 2 + 1, hi) :
              half \in {PropertiesLines(result, lines, lo, (lo + hi) \div 2)}})

\* MetaFileFinder._parse_properties(content)
_parse_properties(content) ==
  The({Dict(PropertiesLines(<<>>, lines, 1, Len(lines))) :
         lines \in {SplitLines(content)}})

\* MetaFileFinder._parse_meta_content(content, file_path): JSON when the
\* path or the text asks for it and json.loads does not raise
\* JSONDecodeError, whatever json.loads returns; else the YAML parser when
\* the path or the text asks for it; else the properties parser. Neither
\* of these two raises, so that the last return, {"raw_content": content},
\* is never reached.
_parse_meta_content(content, file_path) ==
  IF /\ EndsWith(file_path, <<".", "j", "s", "o", "n">>) \/ _looks_like_json(content)
     /\ json_loads(content).ok
  THEN The({r.v : r \in {json_loads(content)}})
  ELSE IF \/ EndsWith(file_path, <<".", "y", "a", "m", "l">>)
          \/ EndsWith(file_path, <<".", "y", "m", "l">>)
          \/ _looks_like_yaml(content)
  THEN _parse_simple_yaml(content)
  ELSE _parse_properties(content)

-----------------------------------------------------------------------------
(* 4.6 API identifier (hooks/validation/api_identifier.py)                 *)

\* APIIdentifier._is_decision_service_repo(): repo_name is the text of
\* self.repo_name, empty when there is none.
_is_decision_service_repo(repo_name) ==
  IF repo_name = <<>> THEN FALSE
  ELSE Contains(LowerStr(repo_name), <<"-", "d", "e", "c", "i", "s", "i", "o", "n", "-", "s", "e", "r", "v", "i", "c", "e", "-">>)

\* APIIdentifier._is_ds_repo()
_is_ds_repo(repo_name) ==
  IF repo_name = <<>> THEN FALSE
  ELSE Contains(LowerStr(repo_name), <<"-", "d", "s", "-">>)

\* identify_api_type, were a repository that matches no rule to be reported
\* as "UNKNOWN".
identify_api_type_unknown(shp_folder_exists, ikp_folder_exists, repo_name) ==
  IF shp_folder_exists THEN "SHP"
  ELSE IF ikp_folder_exists THEN "IKP"
  ELSE IF _is_ds_repo(repo_name) THEN "SHP/IKP"
  ELSE IF _is_decision_service_repo(repo_name) THEN "PCF"
  ELSE "UNKNOWN"

\* APIIdentifier.identify_api_type(), the two folder tests and the name of
\* the repository being its inputs.
identify_api_type(shp_folder_exists, ikp_folder_exists, repo_name) ==
  LET is_decision_service == _is_decision_service_repo(repo_name)
      is_ds_repo == _is_ds_repo(repo_name)
  IN IF shp_folder_exists THEN "SHP"
     ELSE IF ikp_folder_exists THEN "IKP"
     ELSE IF is_ds_repo THEN "SHP/IKP"
     ELSE IF is_decision_service THEN "PCF"
     ELSE IF ~shp_folder_exists /\ ~ikp_folder_exists /\ ~is_decision_service
          THEN "General"
     ELSE "UNKNOWN"

-----------------------------------------------------------------------------
(* 4.6 API validator (hooks/validation/api_validator.py), with the         *)
(* override gate (validation/git_utils.py, ui/validation_dialog.py)        *)

\* MetaFileFinder.read_meta_file(meta_file_path), file being the file at
\* that path: None when there is none or it cannot be read, Some(content)
\* with the text that f.read() returns. A failure returns None, and so
\* does a text that parses to None.
read_meta_file(file, meta_file_path) ==
  IF file = None THEN None ELSE _parse_meta_content(file.v, meta_file_path)

\* APIValidator.add_error(message, file_path) without line number
add_error(errs, text, arg, file_path) ==
  Append(errs, [file_path |-> file_path, text |-> text, arg |-> arg])

RECURSIVE MetaFilesLoop(_, _, _)
\* `for meta_file in self.meta_files` of _validate_meta_files on
\* st = [apiErrors, mvErrors, validation_passed, read, log]: files gives
\* the file at each path, read and log note what read_meta_file returned
\* for the last file and which rules ran on it.
MetaFilesLoop(st, metas, files) ==
  IF metas = <<>> THEN st
  ELSE The({MetaFilesLoop(
              IF meta_content = None
              THEN [st EXCEPT !.apiErrors = add_error(@, "Could not read meta file",
                                                      Str(Head(metas)), Head(metas)),
                              !.validation_passed = FALSE,
                              !.read = meta_content,
                              !.log = <<>>]
              ELSE The({[apiErrors |-> st.apiErrors,
                         mvErrors |-> r.errors,
                         validation_passed |-> st.validation_passed /\ r.validation_passed,
                         read |-> meta_content,
                         log |-> r.log] :
                          r \in {validate_meta_content(st.mvErrors, meta_content,
                                                       Head(metas))}}),
              Tail(metas), files) :
            meta_content \in {read_meta_file(files[JoinChars(Head(metas))],
                                             Head(metas))}})

\* APIValidator._validate_meta_files() of a validator for a PCF or SHP/IKP
\* repository that holds the errors apiErrs, its MetaValidator holding
\* mvErrs: [apiErrors, mvErrors, validation_passed, read, log].
_validate_meta_files(apiErrs, mvErrs, metas, files) ==
  IF metas = <<>>
  THEN [apiErrors |-> add_error(apiErrs, "No api.meta files found in repository",
                                None, <<"r", "e", "p", "o", "s", "i", "t", "o", "r", "y">>),
        mvErrors |-> mvErrs, validation_passed |-> FALSE, read |-> None, log |-> <<>>]
  ELSE MetaFilesLoop([apiErrors |-> apiErrs, mvErrors |-> mvErrs,
                      validation_passed |-> TRUE, read |-> None, log |-> <<>>],
                     metas, files)

\* APIValidator._filter_files_by_type(file_paths) under the default
\* configuration: the paths that end in .py or .json, in their order.
_filter_files_by_type(file_paths) ==
  SelectSeq(file_paths,
            LAMBDA f : EndsWith(f.path, <<".", "p", "y">>)
                         \/ EndsWith(f.path, <<".", "j", "s", "o", "n">>))

RECURSIVE FilesLoop(_, _)
\* `for file_path in filtered_files` of _validate_files on the errors of
\* the validator: a file that is missing is passed over, one that cannot
\* be read adds an error, and _validate_pcf_file and
\* _validate_shp_ikp_file return True for every other.
FilesLoop(apiErrs, filtered) ==
  IF filtered = <<>> THEN apiErrs
  ELSE FilesLoop(IF Head(filtered).state = "unreadable"
                 THEN Append(apiErrs, [file_path |-> Head(filtered).path,
                                       text |-> "Could not read file",
                                       arg |-> Str(Head(filtered).path)])
                 ELSE apiErrs,
                 Tail(filtered))

\* What `input()` hands to _console_fallback: the lines typed, inputs, with
\* EOFError after the last.
EOFError == [raised |-> "EOFError"]

RECURSIVE _console_fallback(_)
\* ui.validation_dialog._console_fallback: the `while True` on the lines
\* not yet read: [result, justification, rest], or EOFError raised.
_console_fallback(inputs) ==
  IF inputs = <<>> THEN EOFError
  ELSE IF Strip(Head(inputs)) = <<"1">>
  THEN [result |-> "cancel", justification |-> <<>>, rest |-> Tail(inputs)]
  ELSE IF Strip(Head(inputs)) = <<"2">>
  THEN IF Tail(inputs) = <<>> THEN EOFError
       ELSE IF Strip(inputs[2]) # <<>>
       THEN [result |-> "proceed", justification |-> Strip(inputs[2]),
             rest |-> Tail(Tail(inputs))]
       ELSE _console_fallback(Tail(Tail(inputs)))
  ELSE _console_fallback(Tail(inputs))

\* ui.validation_dialog.show_validation_dialog on what the user and the
\* display do, ui = [gui, justification, inputs]: the dialog's result,
\* where a window that was closed counts as 'cancel', and the console when
\* the dialog cannot be shown.
show_validation_dialog(ui) ==
  IF ui.gui = "error" THEN _console_fallback(ui.inputs)
  ELSE [result |-> IF ui.gui = "proceed" THEN "proceed" ELSE "cancel",
        justification |-> ui.justification,
        rest |-> ui.inputs]

\* GitUtils.append_to_commit_message, written as if the local file were
\* saved and True returned whether or not the message was amended.
append_to_commit_message_unchecked(justification, git) ==
  [success |-> TRUE,
   amended |-> IF git.message /\ git.can_amend /\ git.amend THEN 1 ELSE 0,
   audit |-> 1]

\* GitUtils.append_to_commit_message on what git and the file system do,
\* git = [message, can_amend, amend, save]: [success, amended, audit] with
\* the number of amendments made and of local files written. An exception
\* of get_last_commit_message or of save_validation_details_local is
\* caught and gives False; amend_commit_message gives False when
\* _can_amend_commit does or `git commit --amend` fails.
append_to_commit_message(justification, git) ==
  IF ~git.message THEN [success |-> FALSE, amended |-> 0, audit |-> 0]
  ELSE IF ~(git.can_amend /\ git.amend) THEN [success |-> FALSE, amended |-> 0, audit |-> 0]
  ELSE IF ~git.save THEN [success |-> FALSE, amended |-> 1, audit |-> 0]
  ELSE [success |-> TRUE, amended |-> 1, audit |-> 1]

\* The `if result == 'proceed'` of both handlers on d, what the dialog or
\* the console returned: [ret, result, justification, amended, audit].
AfterChoice(d, git) ==
  IF d.result = "proceed"
  THEN The({[ret |-> a.success, result |-> d.result, justification |-> d.justification,
             amended |-> a.amended, audit |-> a.audit] :
              a \in {append_to_commit_message(d.justification, git)}})
  ELSE [ret |-> FALSE, result |-> d.result, justification |-> d.justification,
        amended |-> 0, audit |-> 0]

\* What a handler that raises leaves behind.
HandlerRaised(exc) ==
  [raised |-> exc, result |-> "", justification |-> <<>>, amended |-> 0, audit |-> 0]

\* APIValidator._handle_console_validation_failure()
_handle_console_validation_failure(inputs, git) ==
  The({IF "raised" \in DOMAIN d THEN HandlerRaised(d.raised) ELSE AfterChoice(d, git) :
         d \in {_console_fallback(inputs)}})

\* APIValidator._handle_interactive_validation_failure(): an ImportError
\* of the dialog module sends it to the console handler, whose import
\* raises it again; an exception of the console that the dialog fell back
\* to sends it to the console handler too, which reads on.
_handle_interactive_validation_failure(ui, git) ==
  IF ui.gui = "import_error" THEN HandlerRaised("ImportError")
  ELSE The({IF "raised" \in DOMAIN d
            THEN _handle_console_validation_failure(<<>>, git)
            ELSE AfterChoice(d, git) :
              d \in {show_validation_dialog(ui)}})

\* APIValidator._validate_files(file_paths, mode, interactive) on a
\* validator that holds apiErrs and mvErrs:
\* [ret or raised, apiErrors, mvErrors, validation_passed, read, log,
\*  handled, result, justification, amended, audit].
_validate_files(apiErrs, mvErrs, metas, files, file_paths, mode, interactive, ui, git) ==
  IF file_paths = <<>>
  THEN [ret |-> TRUE, apiErrors |-> apiErrs, mvErrors |-> mvErrs,
        validation_passed |-> TRUE, read |-> None, log |-> <<>>, handled |-> FALSE,
        result |-> "", justification |-> <<>>, amended |-> 0, audit |-> 0,
        meta_checked |-> FALSE]
  ELSE The({The({IF (~m.validation_passed \/ Len(errs) > 0) /\ mode = "push" /\ interactive
                 THEN The({h @@ [apiErrors |-> errs, mvErrors |-> m.mvErrors,
                                 validation_passed |-> m.validation_passed,
                                 read |-> m.read, log |-> m.log, handled |-> TRUE,
                                 meta_checked |-> TRUE] :
                             h \in {_handle_interactive_validation_failure(ui, git)}})
                 ELSE [ret |-> m.validation_passed /\ Len(errs) = 0,
                       apiErrors |-> errs, mvErrors |-> m.mvErrors,
                       validation_passed |-> m.validation_passed,
                       read |-> m.read, log |-> m.log, handled |-> FALSE,
                       result |-> "", justification |-> <<>>, amended |-> 0, audit |-> 0,
                       meta_checked |-> TRUE] :
                   errs \in {FilesLoop(m.apiErrors, _filter_files_by_type(file_paths))
                               \o m.mvErrors}}) :
              m \in {_validate_meta_files(apiErrs, mvErrs, metas, files)}})

\* The texts an api.meta file may hold: every text of at most MaxTextLen
\* characters over TextAlphabet, and the texts of HandTexts.
MaxTextLen == 2

TextAlphabet == {"{", "}", "[", "]", "\"", ":", "=", "#", "a", "1", " ", "\n", ","}

ShortTexts == UNION {[1..k -> TextAlphabet] : k \in 0..MaxTextLen}

\* A descriptor in YAML that satisfies every rule.
ValidMeta ==
  <<"i", "g", "n", "o", "r", "e", ":", " ", "f", "a", "l", "s", "e", "\n", "m", "e", "t",
    "a", "D", "a", "t", "a", "V", "e", "r", "s", "i", "o", "n", ":", " ", "6", ".", "0",
    ".", "0", "\n", "a", "s", "s", "e", "t", "N", "a", "m", "e", ":", " ", "m", "y", "-",
    "a", "p", "i", "\n", "a", "s", "s", "e", "t", "V", "e", "r", "s", "i", "o", "n", ":",
    " ", "1", ".", "0", ".", "0", ".", "7", "\n", "a", "u", "t", "o", "I", "n", "c", "r",
    "e", "m", "e", "n", "t", "A", "s", "s", "e", "t", "V", "e", "r", "s", "i", "o", "n",
    ":", " ", "t", "r", "u", "e", "\n", "c", "o", "n", "t", "r", "a", "c", "t", "F", "i",
    "l", "e", "N", "a", "m", "e", ":", " ", "a", "p", "i", ".", "y", "a", "m", "l", "\n",
    "A", "P", "I", ":", "\n", " ", "l", "a", "y", "e", "r", ":", " ", "s", "A", "P", "I",
    "\n", " ", "a", "u", "d", "i", "e", "n", "c", "e", ":", " ", "I", "n", "t", "e", "r",
    "n", "a", "l", "\n", " ", "v", "e", "r", "s", "i", "o", "n", ":", "\n", " ", " ", "s",
    "t", "a", "t", "u", "s", ":", " ", "l", "i", "v", "e", "\n", " ", " ", "a", "p", "i",
    "S", "t", "y", "l", "e", ":", " ", "O", "T", "H", "E", "R", "\n", " ", " ", "a", "r",
    "c", "h", "i", "t", "e", "c", "t", "u", "r", "a", "l", "S", "t", "y", "l", "e", ":",
    " ", "R", "E", "S", "T", "\n", " ", " ", "d", "a", "t", "a", "C", "l", "a", "s", "s",
    "i", "f", "i", "c", "a", "t", "i", "o", "n", ":", " ", "i", "n", "t", "e", "r", "n",
    "a", "l", "\n", " ", " ", "i", "m", "p", "l", "e", "m", "e", "n", "t", "a", "t", "i",
    "o", "n", "F", "r", "a", "m", "e", "w", "o", "r", "k", ":", " ", "C", "A", "R", "B",
    "O", "N", "\n", " ", " ", "c", "o", "n", "t", "r", "a", "c", "t", "V", "e", "r", "s",
    "i", "o", "n", ":", " ", "v", "1", ".", "2", "\n", " ", " ", "p", "r", "i", "v", "a",
    "t", "e", "A", "P", "I", ":", " ", "f", "a", "l", "s", "e", "\n", " ", " ", "t", "r",
    "a", "n", "s", "a", "c", "t", "i", "o", "n", "N", "a", "m", "e", "s", ":", " ", "[",
    "'", "g", "e", "t", "A", "c", "c", "o", "u", "n", "t", "'", "]", "\n", " ", "c", "o",
    "n", "t", "r", "a", "c", "t", ":", "\n", " ", " ", "G", "B", "G", "F", ":", " ", "W",
    "P", "B", "\n", " ", "c", "o", "n", "t", "r", "a", "c", "t", "O", "w", "n", "e", "r",
    ":", "\n", " ", " ", "G", "B", "G", "F", ":", " ", "R", "B", "W", "M", "\n", " ", " ",
    "s", "e", "r", "v", "i", "c", "e", "L", "i", "n", "e", ":", " ", "C", "a", "r", "d",
    "s", "\n", " ", " ", "t", "e", "a", "m", "N", "a", "m", "e", ":", " ", "C", "o", "r",
    "e", "\n", " ", " ", "t", "e", "a", "m", "E", "m", "a", "i", "l", "A", "d", "d", "r",
    "e", "s", "s", ":", " ", "c", "o", "r", "e", "@", "e", "x", "a", "m", "p", "l", "e",
    ".", "o", "r", "g">>
\* A pAPI descriptor's businessModels written in YAML as a list with one
\* object named WPB-CIDM: as a block sequence, as a flow sequence, and as a
\* flow sequence in the JSON notation.
BlockListMeta ==
  <<"A", "P", "I", ":", "\n", " ", " ", "l", "a", "y", "e", "r", ":", " ", "p", "A", "P", "I", "\n", " ", " ", "v", "e", "r", "s", "i", "o", "n", ":", "\n", " ", " ", " ", " ", "b", "u", "s", "i", "n", "e", "s", "s", "M", "o", "d", "e", "l", "s", ":", "\n", " ", " ", " ", " ", " ", " ", "-", " ", "n", "a", "m", "e", ":", " ", "W", "P", "B", "-", "C", "I", "D", "M", "\n">>

FlowListMeta ==
  <<"A", "P", "I", ":", "\n", " ", " ", "l", "a", "y", "e", "r", ":", " ", "p", "A", "P", "I", "\n", " ", " ", "v", "e", "r", "s", "i", "o", "n", ":", "\n", " ", " ", " ", " ", "b", "u", "s", "i", "n", "e", "s", "s", "M", "o", "d", "e", "l", "s", ":", " ", "[", "{", "n", "a", "m", "e", ":", " ", "W", "P", "B", "-", "C", "I", "D", "M", "}", "]", "\n">>

JsonFlowListMeta ==
  <<"A", "P", "I", ":", "\n", " ", " ", "l", "a", "y", "e", "r", ":", " ", "p", "A", "P", "I", "\n", " ", " ", "v", "e", "r", "s", "i", "o", "n", ":", "\n", " ", " ", " ", " ", "b", "u", "s", "i", "n", "e", "s", "s", "M", "o", "d", "e", "l", "s", ":", " ", "[", "{", "\"", "n", "a", "m", "e", "\"", ":", " ", "\"", "W", "P", "B", "-", "C", "I", "D", "M", "\"", "}", "]", "\n">>

PapiYamlTexts == {BlockListMeta, FlowListMeta, JsonFlowListMeta}

HandTexts ==
  {<<"[", "1", "]">>, <<"n", "u", "l", "l">>, <<"5">>, <<"t", "r", "u", "e">>, <<"\"", "x", "\"">>,
   <<" ", "[", " ", "]", " ">>, <<"{", "\"", "a", "\"", ":", " ", "1", "}">>,
   <<"{", "\"", "A", "P", "I", "\"", ":", " ", "{", "\"", "l", "a", "y", "e", "r", "\"", ":", " ", "\"", "p", "A", "P", "I", "\"", "}", "}">>,
   <<"{", "\"", "a", "\"", ":", " ", "1", ",", "}">>, <<"{", " ", "k", ":", " ", "v">>,
   <<"l", "a", "y", "e", "r", ":", " ", "p", "A", "P", "I">>,
   <<"A", "P", "I", ":", "\n", " ", "l", "a", "y", "e", "r", ":", " ", "p", "A", "P", "I">>, <<"k", "=", "v">>, <<"k", "e", "y">>, <<"#", " ", "k", ":", " ", "v">>, ValidMeta}
    \cup PapiYamlTexts

\* The names find_meta_files takes for a meta file, by the parser that the
\* name asks for.
MetaFileNames ==
  {MetaPath, <<"a", "p", "i", ".", "m", "e", "t", "a", ".", "j", "s", "o", "n">>, <<"a", "p", "i", ".", "m", "e", "t", "a", ".", "y", "a", "m", "l">>}

\* The file that read_meta_file finds: none or one that cannot be read, or
\* a text.
ReadPool == {None} \cup {Some(text) : text \in ShortTexts \cup HandTexts}

\* validator._validate_meta_files() on a validator just built that found
\* one meta file.
ValidateMetaFiles ==
  /\ apiRuns = 0
  /\ \E meta_file \in {Head(meta_files.v)}, file \in ReadPool :
       \E r \in {_validate_meta_files(apiErrors, mvErrors, meta_files.v,
                                      JoinChars(meta_file) :> file)} :
         /\ apiErrors' = r.apiErrors
         /\ mvErrors' = r.mvErrors
         /\ apiLast' = [call |-> "_validate_meta_files", meta_file |-> meta_file,
                        file |-> file, ret |-> r.validation_passed,
                        read |-> r.read, log |-> r.log]
  /\ apiRuns' = apiRuns + 1
  /\ UNCHANGED <<amended, auditFiles, apiBuilt, scanVars, diffVars, metaVars, exclVars,
                 pushVars, entVars, genieVars>>

\* _should_validate_repo, were every repository type to be validated.
_should_validate_repo_all(type) == TRUE

\* APIValidator._should_validate_repo()
_should_validate_repo(type) == type \in {"PCF", "SHP", "IKP", "SHP/IKP"}

\* The names of the repositories the type is identified for; the empty
\* text stands for no name.
RepoNames ==
  {<<>>,
   <<"m", "y", "-", "a", "p", "i">>,
   <<"p", "a", "y", "-", "d", "s", "-", "c", "o", "r", "e">>,
   <<"P", "a", "y", "-", "D", "S", "-", "C", "o", "r", "e">>,
   <<"r", "i", "s", "k", "-", "d", "e", "c", "i", "s", "i", "o", "n", "-", "s", "e", "r", "v", "i", "c", "e", "-", "e", "u">>,
   <<"R", "i", "s", "k", "-", "D", "e", "c", "i", "s", "i", "o", "n", "-", "S", "e", "r", "v", "i", "c", "e", "-", "E", "U">>,
   <<"a", "-", "d", "s", "-", "d", "e", "c", "i", "s", "i", "o", "n", "-", "s", "e", "r", "v", "i", "c", "e", "-", "b">>,
   <<"a", "-", "d", "e", "c", "i", "s", "i", "o", "n", "-", "s", "e", "r", "v", "i", "c", "e", "-", "d", "s", "-", "b">>,
   <<"d", "s", "-", "t", "o", "o", "l", "s">>,
   <<"t", "o", "o", "l", "s", "-", "d", "s">>,
   <<"p", "a", "y", "_", "d", "s", "_", "c", "o", "r", "e">>,
   <<"d", "e", "c", "i", "s", "i", "o", "n", "-", "s", "e", "r", "v", "i", "c", "e">>,
   <<"-", "d", "s", "-">>,
   <<"x", "-", "d", "s">>,
   <<"-", "d", "e", "c", "i", "s", "i", "o", "n", "-", "s", "e", "r", "v", "i", "c", "e", "-">>}

\* api_identifier.identify_api_type() in a repository, api_type holding ""
\* before the call.
IdentifyApiType ==
  /\ api_type = ""
  /\ api_type' = identify_api_type(apiRepo.shp, apiRepo.ikp, apiRepo.name)
  /\ UNCHANGED <<apiErrors, mvErrors, apiRuns, apiLast, amended, auditFiles, apiRepo,
                 skip_validation, meta_files, scanVars, diffVars, metaVars, exclVars,
                 pushVars, entVars, genieVars>>

\* The repositories a validator is built in: one of every type.
BuiltRepos ==
  {[shp |-> TRUE, ikp |-> FALSE, name |-> <<>>],
   [shp |-> FALSE, ikp |-> TRUE, name |-> <<"m", "y", "-", "a", "p", "i">>],
   [shp |-> FALSE, ikp |-> FALSE, name |-> <<"p", "a", "y", "-", "d", "s", "-", "c", "o", "r", "e">>],
   [shp |-> FALSE, ikp |-> FALSE, name |-> <<"r", "i", "s", "k", "-", "d", "e", "c", "i", "s", "i", "o", "n", "-", "s", "e", "r", "v", "i", "c", "e", "-", "e", "u">>],
   [shp |-> FALSE, ikp |-> FALSE, name |-> <<"m", "y", "-", "a", "p", "i">>]}

\* APIValidator.__init__ in a repository, found being what find_meta_files
\* returns: meta_files is set only when the repository is validated.
APIValidatorInit ==
  \E repo \in BuiltRepos, found \in {<<>>, <<MetaPath>>} :
    /\ apiRepo = repo
    /\ api_type = identify_api_type(repo.shp, repo.ikp, repo.name)
    /\ skip_validation = ~_should_validate_repo(api_type)
    /\ meta_files = IF _should_validate_repo(api_type) THEN Some(found) ELSE None

\* `if self.skip_validation: return True` at the head of validate_files,
\* validate_staged_files and validate_commit_range.
Skipped ==
  [ret |-> TRUE, apiErrors |-> apiErrors, mvErrors |-> mvErrors,
   validation_passed |-> TRUE, read |-> None, log |-> <<>>, handled |-> FALSE,
   result |-> "", justification |-> <<>>, amended |-> 0, audit |-> 0,
   meta_checked |-> FALSE]

\* The runs of one validator: at most MaxRuns.
MaxRuns == 2

\* The state of that meta file at a run.
ApiFiles == {None, Some(<<"[", "]">>), Some(<<"l", "a", "y", "e", "r", ":", " ", "p", "A", "P", "I">>), Some(ValidMeta)}

\* The files a run is handed, each with what the file system holds for it.
FilePathsPool ==
  {<<>>,
   <<[path |-> <<"s", "r", "c", "/", "a", "p", "p", ".", "p", "y">>, state |-> "readable"]>>,
   <<[path |-> <<"R", "E", "A", "D", "M", "E", ".", "m", "d">>, state |-> "missing"],
     [path |-> <<"s", "r", "c", "/", "g", "o", "n", "e", ".", "p", "y">>, state |-> "missing"],
     [path |-> <<"s", "r", "c", "/", "d", "a", "t", "a", ".", "j", "s", "o", "n">>, state |-> "unreadable"]>>}

\* What the user and the display do at the dialog.
Justification == <<"a", "g", "r", "e", "e", "d", " ", "w", "i", "t", "h", " ", "t", "h", "e", " ", "o", "w", "n", "e", "r">>

ConsoleLines == {<<"1">>, <<"2">>, <<>>, <<" ", "f", "i", "x", " ", "l", "a", "t", "e", "r", " ">>}

MaxInputs == 3

ConsoleInputs == UNION {[1..k -> ConsoleLines] : k \in 0..MaxInputs}

UiPool ==
  {[gui |-> "proceed", justification |-> Justification, inputs |-> <<>>],
   [gui |-> "cancel", justification |-> <<>>, inputs |-> <<>>],
   [gui |-> "closed", justification |-> <<>>, inputs |-> <<>>],
   [gui |-> "closed", justification |-> Justification, inputs |-> <<>>],
   [gui |-> "import_error", justification |-> <<>>, inputs |-> <<>>]}
    \cup {[gui |-> "error", justification |-> <<>>, inputs |-> inputs] :
            inputs \in ConsoleInputs}

NoUi == [gui |-> "cancel", justification |-> <<>>, inputs |-> <<>>]

\* What git and the file system do for append_to_commit_message: all goes
\* well, or one step fails.
GitOk == [message |-> TRUE, can_amend |-> TRUE, amend |-> TRUE, save |-> TRUE]

GitPool ==
  {GitOk, [GitOk EXCEPT !.message = FALSE], [GitOk EXCEPT !.can_amend = FALSE],
   [GitOk EXCEPT !.amend = FALSE], [GitOk EXCEPT !.save = FALSE]}

\* One run of _validate_files on the validator, r being what it did.
Ran(call, file, file_paths, interactive, ui, git, r) ==
  /\ apiErrors' = r.apiErrors
  /\ mvErrors' = r.mvErrors
  /\ apiRuns' = apiRuns + 1
  /\ amended' = amended + r.amended
  /\ auditFiles' = auditFiles + r.audit
  /\ apiLast' = [call |-> call, file |-> file, file_paths |-> file_paths,
                 interactive |-> interactive, ui |-> ui, git |-> git,
                 errorsBefore |-> Len(apiErrors), r |-> r]
  /\ UNCHANGED <<apiBuilt, scanVars, diffVars, metaVars, exclVars, pushVars, entVars, genieVars>>

\* validator.validate_files(file_paths)
ValidateFiles ==
  /\ apiRuns < MaxRuns
  /\ \E file \in ApiFiles, file_paths \in FilePathsPool :
       \E r \in {IF skip_validation THEN Skipped
                  ELSE _validate_files(apiErrors, mvErrors, meta_files.v,
                                       "api.meta" :> file, file_paths,
                                       "manual", FALSE, NoUi, GitOk)} :
         Ran("validate_files", file, file_paths, FALSE, NoUi, GitOk, r)

\* validator.validate_staged_files(), file_paths being what
\* _get_staged_files returns
ValidateStagedFiles ==
  /\ apiRuns < MaxRuns
  /\ \E file \in ApiFiles, file_paths \in FilePathsPool :
       \E r \in {IF skip_validation THEN Skipped
                  ELSE _validate_files(apiErrors, mvErrors, meta_files.v,
                                       "api.meta" :> file, file_paths,
                                       "commit", FALSE, NoUi, GitOk)} :
         Ran("validate_staged_files", file, file_paths, FALSE, NoUi, GitOk, r)

\* validator.validate_commit_range(commit_range), file_paths being what
\* _get_changed_files_in_range returns
ValidateCommitRange ==
  /\ apiRuns < MaxRuns
  /\ \E file \in ApiFiles, file_paths \in FilePathsPool :
       \E r \in {IF skip_validation THEN Skipped
                  ELSE _validate_files(apiErrors, mvErrors, meta_files.v,
                                       "api.meta" :> file, file_paths,
                                       "push", FALSE, NoUi, GitOk)} :
         Ran("validate_commit_range", file, file_paths, FALSE, NoUi, GitOk, r)

\* validator.validate_commit_range(commit_range, interactive=True) on a
\* validator just built
ValidateCommitRangeInteractive ==
  /\ apiRuns = 0
  /\ \E file \in ApiFiles, file_paths \in FilePathsPool, ui \in UiPool, git \in GitPool :
       \E r \in {IF skip_validation THEN Skipped
                  ELSE _validate_files(apiErrors, mvErrors, meta_files.v,
                                       "api.meta" :> file, file_paths,
                                       "push", TRUE, ui, git)} :
         Ran("validate_commit_range", file, file_paths, TRUE, ui, git, r)

-----------------------------------------------------------------------------
(* Specifications                                                          *)

DiffIdle == diffIn = <<>> /\ diffOut = <<>> /\ diffPc = "idle"

MetaIdle ==
  metaIn = None /\ errors = <<>> /\ metaRet = None /\ ruleLog = <<>> /\ metaPc = "idle"

ExclIdle == exclIn = <<>> /\ exclKept = <<>> /\ exclPc = "idle"

PushIdle == gitEnv = <<>> /\ pushRet = <<>> /\ pushTried = <<>> /\ pushPc = "idle"

EntIdle == entIn = <<>> /\ entOut = <<>>

ApiIdle ==
  /\ apiErrors = <<>>
  /\ mvErrors = <<>>
  /\ apiRuns = 0
  /\ apiLast = None
  /\ amended = 0
  /\ auditFiles = 0

\* A validator built in a repository with the folder SHP that found the
\* meta file api.meta.
ApiBuiltShp ==
  /\ apiRepo = [shp |-> TRUE, ikp |-> FALSE, name |-> <<>>]
  /\ api_type = "SHP"
  /\ skip_validation = FALSE
  /\ meta_files = Some(<<MetaPath>>)

\* A validator built in a repository with the folder SHP that found one
\* meta file, of any of the names.
ApiBuiltShpAnyName ==
  /\ apiRepo = [shp |-> TRUE, ikp |-> FALSE, name |-> <<>>]
  /\ api_type = "SHP"
  /\ skip_validation = FALSE
  /\ \E meta_file \in MetaFileNames : meta_files = Some(<<meta_file>>)

GenieIdle == GenieInit

ScanIdle ==
  /\ found_secrets = <<>> /\ seen_file_lines = {} /\ returned = None
  /\ lastCall = [op |-> "init"] /\ calls = 0 /\ unreadable = {}

\* The Secret Scanner: one SecretScanner instance and the calls made on it.
Init == ScanInit /\ DiffIdle /\ MetaIdle /\ ExclIdle /\ PushIdle /\ EntIdle /\ ApiIdle /\ GenieIdle /\ ApiBuiltShp

Next ==
  \/ \E file_path \in Range(TrackedFiles), line_number \in 1..MaxLineNo,
        line \in ScanLinePool : ScanLine(file_path, line_number, line)
  \/ \E lines \in ContentPool, file_path \in Range(TrackedFiles) :
        ScanContent(lines, file_path)
  \/ \E file_path \in Range(TrackedFiles) : ScanFile(file_path)
  \/ \E files_list \in ListPool : ScanFiles(files_list)
  \/ \E files_list \in ListPool, git_ok \in BOOLEAN : ScanFilesToPush(files_list, git_ok)
  \/ \E git_ok \in BOOLEAN : ScanRepository(git_ok)
  \/ \E files_list \in ListPool, d \in DiffPool : ScanChangedLines(files_list, d)
  \/ \E diff_flag \in BOOLEAN, git_ok \in BOOLEAN : Main(diff_flag, git_ok)

Spec == Init /\ [][Next]_vars

\* The Diff Extractor: one run of get_git_diff on one diff text.
InitDiff == ScanIdle /\ DiffInit /\ MetaIdle /\ ExclIdle /\ PushIdle /\ EntIdle /\ ApiIdle /\ GenieIdle /\ ApiBuiltShp

NextDiff == GetGitDiff

SpecDiff == InitDiff /\ [][NextDiff]_vars

\* The Meta Validator: one call of validate_meta_content on one descriptor.
InitMeta == ScanIdle /\ DiffIdle /\ MetaInit /\ ExclIdle /\ PushIdle /\ EntIdle /\ ApiIdle /\ GenieIdle /\ ApiBuiltShp

NextMeta == ValidateMetaContent

SpecMeta == InitMeta /\ [][NextMeta]_vars

\* The Exclusion Engine: the tracked files of one repository are filtered.
InitExcl == ScanIdle /\ DiffIdle /\ MetaIdle /\ ExclInit /\ PushIdle /\ EntIdle /\ ApiIdle /\ GenieIdle /\ ApiBuiltShp

NextExcl == FilterTrackedFiles

SpecExcl == InitExcl /\ [][NextExcl]_vars

\* The fallback chain: one call of get_pushed_files in one repository.
InitPush == ScanIdle /\ DiffIdle /\ MetaIdle /\ ExclIdle /\ PushInit /\ EntIdle /\ ApiIdle /\ GenieIdle /\ ApiBuiltShp

NextPush == GetPushedFiles

SpecPush == InitPush /\ [][NextPush]_vars

\* The Entropy Scorer: the two calculate_entropy functions on one text.
InitEntropy == ScanIdle /\ DiffIdle /\ MetaIdle /\ ExclIdle /\ PushIdle /\ EntropyInit /\ ApiIdle /\ GenieIdle /\ ApiBuiltShp

NextEntropy == ScannerEntropy \/ UtilsEntropy

SpecEntropy == InitEntropy /\ [][NextEntropy]_vars

\* _validate_meta_files on every text of a meta file (4.6).
InitRead ==
  /\ ScanIdle /\ DiffIdle /\ MetaIdle /\ ExclIdle /\ PushIdle /\ EntIdle /\ ApiIdle /\ GenieIdle
  /\ ApiBuiltShpAnyName

NextRead == ValidateMetaFiles

SpecRead == InitRead /\ [][NextRead]_vars

\* The runs of one API validator (4.6).
InitApi ==
  /\ ScanIdle /\ DiffIdle /\ MetaIdle /\ ExclIdle /\ PushIdle /\ EntIdle /\ ApiIdle /\ GenieIdle
  /\ APIValidatorInit

NextApi == ValidateFiles \/ ValidateStagedFiles \/ ValidateCommitRange

SpecApi == InitApi /\ [][NextApi]_vars

\* The override gate of an interactive push (4.6).
\* identify_api_type on every repository of the pool (4.6).
InitIdent ==
  /\ ScanIdle /\ DiffIdle /\ MetaIdle /\ ExclIdle /\ PushIdle /\ EntIdle /\ ApiIdle /\ GenieIdle
  /\ apiRepo \in [shp : BOOLEAN, ikp : BOOLEAN, name : RepoNames]
  /\ api_type = ""
  /\ skip_validation = FALSE
  /\ meta_files = None

NextIdent == IdentifyApiType

SpecIdent == InitIdent /\ [][NextIdent]_vars

\* The Secret Scanner of secretgenie: one SecretScanner instance and the calls
\* made on it.
InitGenie ==
  /\ ScanIdle /\ DiffIdle /\ MetaIdle /\ ExclIdle /\ PushIdle /\ EntIdle /\ ApiIdle
  /\ ApiBuiltShp /\ GenieInit

NextGenie ==
  \/ \E lines \in GenieContentPool, file_path \in GenieFiles :
        GenieScanContent(lines, file_path)
  \/ \E staged \in StagedPool, git_ok \in BOOLEAN : GenieScanStagedChanges(staged, git_ok)

SpecGenie == InitGenie /\ [][NextGenie]_vars

InitGate == ScanIdle /\ DiffIdle /\ MetaIdle /\ ExclIdle /\ PushIdle /\ EntIdle /\ ApiIdle /\ GenieIdle /\ ApiBuiltShp

NextGate == ValidateCommitRangeInteractive

SpecGate == InitGate /\ [][NextGate]_vars

-----------------------------------------------------------------------------
(* Claims about the Secret Scanner, checked under Spec                     *)

\* The line numbers at which a full scan of file f finds a secret.
SecretLines(f) ==
  {n \in 1..Len(FileLines(f)) : LineSecretOf(FileLines(f)[n]) # <<>>}

\* C1: whatever calls were made on one SecretScanner, found_secrets never
\* holds two Findings with the same (file_path, line_number).
C1_OneFindingPerPlace ==
  \A i, j \in DOMAIN found_secrets :
    (/\ found_secrets[i].file_path = found_secrets[j].file_path
     /\ found_secrets[i].line_number = found_secrets[j].line_number) => i = j

\* C1 witness: scan_line was called with a line that holds a secret, for a
\* place where an earlier call had already recorded a Finding of another line.
C1_PlaceScannedAgain ==
  /\ lastCall.op = "scan_line"
  /\ ~lastCall.fresh
  /\ ~ShouldExclude(lastCall.file_path)
  /\ LineSecretOf(lastCall.line) # <<>>
  /\ \E i \in DOMAIN found_secrets :
       /\ found_secrets[i].file_path = lastCall.file_path
       /\ found_secrets[i].line_number = lastCall.line_number
       /\ found_secrets[i].line # lastCall.line

\* C2: on a fresh session, scan_line("x.py", 3, "AKIA1234567890ABCDEF")
\* records exactly one Finding, of type "AWS Access Key ID".
C2_AkiaLineRecordsOneAwsFinding ==
  (/\ lastCall.op = "scan_line"
   /\ lastCall.fresh
   /\ lastCall.file_path = F_x
   /\ lastCall.line_number = 3
   /\ lastCall.line = L_akia)
  => /\ Len(found_secrets) = 1
     /\ found_secrets[1].type = "AWS Access Key ID"

\* C7: the list scan_files, scan_files_to_push or scan_repository returns
\* holds only Findings of files that this call scanned, also on an instance
\* that ran an earlier scan; so in main() the result of scan_files_to_push()
\* holds only Findings of staged files.
C7_ReturnedFindingsAreOfThisCall ==
  /\ lastCall.op \in {"scan_files", "scan_files_to_push", "scan_repository"}
       => \A i \in DOMAIN returned : returned[i].file_path \in Range(lastCall.files)
  /\ (lastCall.op = "main" /\ lastCall.diff_flag)
       => \A i \in DOMAIN lastCall.diff_results :
            lastCall.diff_results[i].file_path \in Range(StagedFiles)

\* C9: scan_changed_lines(file_list) on a fresh session. With an empty
\* Changed-Lines Map it leaves what scan_files(file_list) leaves and returns
\* what it returns. Otherwise every Finding of a listed, not excluded file
\* that the map holds is one of the map's (line number, content) pairs of
\* that file, and a listed, not excluded, readable file that the map does
\* not hold has a Finding at every line where a full scan finds one.
C9_ChangedLinesScanFollowsTheMap ==
  (lastCall.op = "scan_changed_lines" /\ lastCall.fresh) =>
    IF DOMAIN lastCall.changed_lines = {}
    THEN [s |-> Session, ret |-> returned]
           = scan_files(NewSession, lastCall.files, lastCall.bad)
    ELSE \A k \in DOMAIN lastCall.files :
           LET f == lastCall.files[k] IN
           ~ShouldExclude(f) =>
             IF f \in DOMAIN lastCall.changed_lines
             THEN \A i \in DOMAIN found_secrets :
                    found_secrets[i].file_path = f
                      => <<found_secrets[i].line_number, found_secrets[i].line>>
                           \in Range(lastCall.changed_lines[f])
             ELSE f \notin lastCall.bad
                    => {found_secrets[i].line_number :
                          i \in {j \in DOMAIN found_secrets :
                                   found_secrets[j].file_path = f}}
                         = SecretLines(f)

\* C9 witness: a fresh scan_changed_lines of a file that the map holds
\* recorded a Finding of that file, and left out a line of the file where a
\* full scan finds a secret.
C9_MapNarrowedTheScan ==
  /\ lastCall.op = "scan_changed_lines"
  /\ lastCall.fresh
  /\ \E k \in DOMAIN lastCall.files :
       LET f == lastCall.files[k] IN
       /\ ~ShouldExclude(f)
       /\ f \in DOMAIN lastCall.changed_lines
       /\ \E i \in DOMAIN found_secrets : found_secrets[i].file_path = f
       /\ \E n \in SecretLines(f) :
            \A i \in DOMAIN found_secrets :
              found_secrets[i].file_path = f => found_secrets[i].line_number # n

\* The line numbers of the Findings of file f in the list a call returned.
ReturnedLines(f) ==
  {returned[i].line_number : i \in {j \in DOMAIN returned : returned[j].file_path = f}}

\* C18: in scan_files, scan_files_to_push and scan_repository on a fresh
\* session a file whose read fails contributes no Finding and the files
\* after it are still scanned: every readable, not excluded file of the
\* list has its Findings in the result; and scan_repository returns an
\* empty list when the tracked files cannot be enumerated.
C18_FailingFileIsSkippedAndScanGoesOn ==
  /\ (/\ lastCall.op \in {"scan_files", "scan_files_to_push", "scan_repository"}
      /\ lastCall.fresh)
       => /\ \A f \in lastCall.bad : ReturnedLines(f) = {}
          /\ \A k \in DOMAIN lastCall.files :
               LET f == lastCall.files[k] IN
               (~ShouldExclude(f) /\ f \notin lastCall.bad)
                 => ReturnedLines(f) = SecretLines(f)
  /\ (lastCall.op = "scan_repository" /\ lastCall.files = <<>>) => returned = <<>>

\* C18 witness: a fresh scan met a file that could not be read and
\* returned a Finding of a file that comes after it in the list.
C18_FindingAfterUnreadableFile ==
  /\ lastCall.op \in {"scan_files", "scan_files_to_push", "scan_repository"}
  /\ lastCall.fresh
  /\ \E k \in DOMAIN lastCall.files :
       /\ lastCall.files[k] \in lastCall.bad
       /\ ~ShouldExclude(lastCall.files[k])
       /\ SecretLines(lastCall.files[k]) # {}
       /\ \E m \in DOMAIN lastCall.files :
            m > k /\ ReturnedLines(lastCall.files[m]) # {}

\* The values the stoplist names: shorter than 6 characters, or one of the
\* twelve common words in any case.
Stoplisted(value) ==
  \/ Len(value) < 6
  \/ LowerStr(value)
       \in {<<"t", "r", "u", "e">>, <<"f", "a", "l", "s", "e">>, <<"n", "o", "n", "e">>, <<"n", "u", "l", "l">>, <<"u", "n", "d", "e", "f", "i", "n", "e", "d">>, <<"l", "o", "c", "a", "l", "h", "o", "s", "t">>, <<"p", "a", "s", "s", "w", "o", "r", "d">>, <<"u", "s", "e", "r", "n", "a", "m", "e">>, <<"u", "s", "e", "r">>, <<"t", "e", "s", "t">>, <<"e", "x", "a", "m", "p", "l", "e">>, <<"d", "e", "m", "o">>}

\* C19: no Finding has a stoplisted value as its matched_content; and
\* every stoplisted candidate that a pass of scan_line met on its line is
\* rejected by should_skip_value and is the matched_content of no Finding.
C19_StoplistedValueIsNoFinding ==
  /\ \A i \in DOMAIN found_secrets : ~Stoplisted(found_secrets[i].matched_content)
  /\ lastCall.op = "scan_line" =>
       \A value \in CandidateTable[lastCall.line] :
         Stoplisted(value)
           => /\ should_skip_value(value)
              /\ \A i \in DOMAIN found_secrets :
                   found_secrets[i].matched_content # value

\* C19 witness: scan_line scanned a line, not excluded and not seen before,
\* that holds a common word in capitals as the value of a suspicious
\* variable, and recorded no Finding for it.
C19_CommonWordInCapitalsScanned ==
  /\ lastCall.op = "scan_line"
  /\ lastCall.fresh
  /\ ~ShouldExclude(lastCall.file_path)
  /\ \E value \in CandidateTable[lastCall.line] :
       Len(value) >= 6 /\ Stoplisted(value) /\ value # LowerStr(value)
  /\ found_secrets = <<>>

\* The matches of the i-th catalog pattern on the line that pass the
\* skip-value, minimum-length, entropy and name checks, as the positions at
\* which they start.
SurvivingMatches(i, line) ==
  LET ms == FindIter(PATTERNS[i].pattern, line, 1)
  IN {ms[j].start : j \in {k \in DOMAIN ms : CatalogAccepts(PATTERNS[i], ms[k], line)}}

\* For each line of the pool, the catalog patterns that have a surviving
\* match on it and, where there is one, the text of the leftmost surviving
\* match of the earliest of them.
SurvivorTable ==
  [line \in LinePool |->
     LET patterns == {i \in DOMAIN PATTERNS : SurvivingMatches(i, line) # {}}
     IN [patterns |-> patterns,
         first |-> IF patterns = {} THEN <<>>
                   ELSE LET i == CHOOSE p \in patterns : \A q \in patterns : p <= q
                            ms == FindIter(PATTERNS[i].pattern, line, 1)
                            m == CHOOSE x \in Range(ms) :
                                   /\ x.start \in SurvivingMatches(i, line)
                                   /\ \A y \in SurvivingMatches(i, line) : x.start <= y
                        IN [type |-> PATTERNS[i].type, matched_content |-> Group0(m, line)]]]

\* The Findings the instance holds and those the last call returned.
FindingsSeen ==
  Range(found_secrets)
    \cup (IF lastCall.op \in {"scan_content", "scan_file", "scan_files", "scan_files_to_push",
                             "scan_repository", "scan_changed_lines"}
          THEN Range(returned) ELSE {})

\* C24: first surviving match wins. The Finding of a line on which catalog
\* patterns have a surviving match has the type and the matched content of
\* the earliest such pattern's first surviving match and detection_method
\* pattern_match; a Finding with detection_method variable_scan is of a line
\* on which no catalog pattern has a surviving match; and one scan_line call
\* on a new scanner records at most one Finding.
C24_EarliestSurvivingPatternWins ==
  /\ \A finding \in FindingsSeen :
       LET survivors == SurvivorTable[finding.line] IN
       IF survivors.patterns # {}
       THEN /\ finding.detection_method = "pattern_match"
            /\ finding.type = survivors.first.type
            /\ finding.matched_content = survivors.first.matched_content
       ELSE /\ finding.detection_method = "variable_scan"
            /\ finding.type = "Variable Assignment"
  /\ (lastCall.op = "scan_line" /\ lastCall.fresh) => Len(found_secrets) <= 1

\* C24 witness: scan_line on a new scanner recorded the Finding of a line on
\* which two catalog patterns of different types have a surviving match, and
\* the catalog holds a later pattern of another type that survives.
C24_SeveralPatternsSurvived ==
  /\ lastCall.op = "scan_line"
  /\ lastCall.fresh
  /\ Len(found_secrets) = 1
  /\ found_secrets[1].line = lastCall.line
  /\ \E i, j \in SurvivorTable[lastCall.line].patterns :
       i < j /\ PATTERNS[i].type # PATTERNS[j].type
             /\ found_secrets[1].type = PATTERNS[i].type

-----------------------------------------------------------------------------
(* Claims about the Diff Extractor, checked under SpecDiff                 *)

\* C3: the first added line after the hunk header `@@ -0,0 +c,d @@` is
\* recorded for its file with line number c and the following ones with
\* c + 1, c + 2, ...; so the diff of f.py that adds line5 and line6 at
\* line 5 yields {"f.py": [(5, "line5"), (6, "line6")]}.
C3_AddedLinesNumberedFromHunkStart ==
  diffPc = "done" =>
    /\ \A f \in DOMAIN diffOut :
         \A i \in DOMAIN diffOut[f] :
           diffOut[f][i][2] = <<"l", "i", "n", "e">> \o Decimal(diffOut[f][i][1])
    /\ diffIn = ScenarioDiff
         => diffOut = (<<"f", ".", "p", "y">> :> <<<<5, <<"l", "i", "n", "e", "5">>>>, <<6, <<"l", "i", "n", "e", "6">>>>>>)

-----------------------------------------------------------------------------
(* Claims about the Meta Validator, checked under SpecMeta                 *)

\* The positions in validation_rules of the rules that added an error.
FailedRules == {i \in DOMAIN ruleLog : ruleLog[i].added > 0}

RECURSIVE AddedFrom(_)
\* The number of errors the rules from the i-th on added.
AddedFrom(i) == IF i > Len(ruleLog) THEN 0 ELSE ruleLog[i].added + AddedFrom(i + 1)

\* C4: validate_meta_content on a mapping runs the 22 rules once each in
\* the declared order, whether or not earlier ones failed; each rule adds at
\* most one error, so the call adds between 0 and 22 errors.
C4_AllRulesRunOnceInOrder ==
  (metaPc = "done" /\ IsDict(metaIn)) =>
    /\ Len(validation_rules) = 22
    /\ [i \in DOMAIN ruleLog |-> ruleLog[i].rule] = validation_rules
    /\ \A i \in DOMAIN ruleLog : ruleLog[i].added \in {0, 1}
    /\ Len(errors) = AddedFrom(1)
    /\ Len(errors) \in 0..22

\* C4 witness: the first rule failed and the last rule was still run, and
\* failed too.
C4_LastRuleFailsAfterFirst ==
  /\ metaPc = "done"
  /\ Len(ruleLog) = 22
  /\ ruleLog[1].added = 1
  /\ ruleLog[22].added = 1

\* C5: for the descriptor {} validate_meta_content returns False and
\* records exactly 19 errors: one of every rule but the 15th, 16th and 22nd.
C5_EmptyDescriptorYields19Errors ==
  (metaPc = "done" /\ metaIn = EmptyDescriptor) =>
    /\ metaRet = FALSE
    /\ Len(errors) = 19
    /\ FailedRules = (1..22) \ {15, 16, 22}

\* C5 witness: {} was validated.
C5_EmptyDescriptorValidated ==
  metaPc = "done" /\ metaIn = EmptyDescriptor /\ Len(ruleLog) = 22

MetaLayer == _get_nested_value(metaIn, <<"API", "layer">>)

MetaBusinessModels == _get_nested_value(metaIn, <<"API", "version", "businessModels">>)

\* C14: when API.layer is "pAPI" the 15th rule passes only if
\* API.version.businessModels is a non-empty list: an absent value, an
\* empty list and every value that is no list produce its error; when
\* API.layer is not "pAPI" the rule produces no error.
C14_Rule15WantsANonEmptyList ==
  (metaPc = "done" /\ IsDict(metaIn)) =>
    (ruleLog[15].added = 1
       <=> /\ MetaLayer = Str(<<"p", "A", "P", "I">>)
           /\ ~(IsList(MetaBusinessModels) /\ MetaBusinessModels.v # <<>>))

\* C15: the 16th rule passes, for "pAPI", iff businessModels is a list
\* with at least one object named "WPB-CIDM"; for "sAPI" and "xAPI" with a
\* non-empty list, iff every entry is an object named "WPB-CIDM"; for any
\* other layer, and for an absent or empty list under "sAPI" or "xAPI", it
\* passes.
C15_Rule16WpbCidmByLayer ==
  (metaPc = "done" /\ IsDict(metaIn)) =>
    LET passes == ruleLog[16].added = 0
        bm == MetaBusinessModels
        sx == MetaLayer \in {Str(<<"s", "A", "P", "I">>), Str(<<"x", "A", "P", "I">>)}
    IN /\ MetaLayer = Str(<<"p", "A", "P", "I">>) =>
            (passes <=> IsList(bm) /\ \E i \in DOMAIN bm.v : IsWpbCidm(bm.v[i]))
       /\ (sx /\ IsList(bm) /\ bm.v # <<>>) =>
            (passes <=> \A i \in DOMAIN bm.v : IsWpbCidm(bm.v[i]))
       /\ (sx /\ (bm = None \/ bm = List(<<>>))) => passes
       /\ (~sx /\ MetaLayer # Str(<<"p", "A", "P", "I">>)) => passes

\* C15 witness: under "sAPI" a list with one entry named "WPB-CIDM" and one
\* named otherwise was validated and the 16th rule added its error.
C15_MixedListUnderSapiFails ==
  /\ metaPc = "done" /\ IsDict(metaIn)
  /\ MetaLayer = Str(<<"s", "A", "P", "I">>)
  /\ IsList(MetaBusinessModels) /\ Len(MetaBusinessModels.v) = 2
  /\ \E i \in DOMAIN MetaBusinessModels.v : IsWpbCidm(MetaBusinessModels.v[i])
  /\ ruleLog[16].added = 1

\* The three places of GBGF, in the order of their precedence.
GbgfPaths ==
  <<(<<"API", "contract", "GBGF">>), (<<"contractOwner", "GBGF">>),
    (<<"API", "contractOwner", "GBGF">>)>>

RECURSIVE HasPath(_, _)
\* The descriptor holds a field at the path.
HasPath(current, keys) ==
  \/ keys = <<>>
  \/ /\ IsDict(current) /\ Head(keys) \in DOMAIN current.v
     /\ HasPath(current.v[Head(keys)], Tail(keys))

\* The places of GBGF that the descriptor validated holds.
GbgfPresentAt == {i \in DOMAIN GbgfPaths : HasPath(metaIn, GbgfPaths[i])}

\* C16: the 18th rule checks the value of the first of API.contract.GBGF,
\* contractOwner.GBGF and API.contractOwner.GBGF that is present: it passes
\* iff that value is an allowed one, and it reports GBGF as missing only
\* when the field is present at none of the three.
C16_GbgfTakenFromFirstPlacePresent ==
  (metaPc = "done" /\ IsDict(metaIn)) =>
    LET missing == \E i \in DOMAIN errors :
                     errors[i].text
                       = "GBGF field is missing (should be in API.contract.GBGF or contractOwner.GBGF)"
    IN IF GbgfPresentAt = {} THEN missing /\ ruleLog[18].added = 1
       ELSE LET first == CHOOSE i \in GbgfPresentAt : \A j \in GbgfPresentAt : i <= j
                gbgf == _get_nested_value(metaIn, GbgfPaths[first])
            IN /\ ~missing
               /\ ruleLog[18].added = 0 <=> InAllowed(gbgf, ALLOWED_VALUES.GBGF)

\* The positions in validation_rules of the rules that raised.
RaisedRules == {i \in DOMAIN ruleLog : ruleLog[i].raised}

\* C17: a rule that raises is caught at that rule: it leaves exactly one
\* error, "Validation rule error", the result of the call is False, the
\* rules after it are still run, and validate_meta_content returns.
C17_RaisingRuleCaughtAtThatRule ==
  (metaPc = "done" /\ RaisedRules # {}) =>
    /\ \A i \in RaisedRules : ruleLog[i].added = 1
    /\ Cardinality({i \in DOMAIN errors : errors[i].text = "Validation rule error"})
         = Cardinality(RaisedRules)
    /\ metaRet = FALSE
    /\ [i \in DOMAIN ruleLog |-> ruleLog[i].rule] = validation_rules

\* C17 witness: the first rule raised, a later rule raised too, and the
\* last rule was run.
C17_TwoRulesRaisedAndTheLastRan ==
  /\ metaPc = "done"
  /\ 1 \in RaisedRules /\ Cardinality(RaisedRules) >= 2
  /\ Len(ruleLog) = 22

\* C30: validate_meta_content returns False iff it added at least one error
\* during the call: a rule that returns, returns False exactly when it
\* added its one error; a rule that raises leaves one error; a content that
\* is no mapping leaves one error and False, and no rule is run.
C30_FalseIffAnErrorWasAdded ==
  metaPc = "done" =>
    /\ metaRet = FALSE <=> Len(errors) > 0
    /\ \A i \in DOMAIN ruleLog :
         IF ruleLog[i].raised THEN ruleLog[i].added = 1
         ELSE /\ ruleLog[i].ret = FALSE <=> ruleLog[i].added = 1
              /\ ruleLog[i].ret = TRUE <=> ruleLog[i].added = 0
    /\ Len(errors) = AddedFrom(1) + (IF IsDict(metaIn) THEN 0 ELSE 1)
    /\ ~IsDict(metaIn) => (metaRet = FALSE /\ Len(errors) = 1 /\ ruleLog = <<>>)

\* C30 witness: in one call a rule raised, a rule returned False and a rule
\* returned True, and the result is False.
C30_RaisedFailedAndPassedRules ==
  /\ metaPc = "done" /\ metaRet = FALSE
  /\ RaisedRules # {}
  /\ \E i \in DOMAIN ruleLog : ~ruleLog[i].raised /\ ruleLog[i].ret = FALSE
  /\ \E i \in DOMAIN ruleLog : ~ruleLog[i].raised /\ ruleLog[i].ret = TRUE

-----------------------------------------------------------------------------
(* Claims about the Exclusion Engine, checked under SpecExcl               *)

\* The four exclusion rules, for a variant configured with the glob patterns
\* pats, the extensions exts and the directory names dirs.
ExcludedByRules(f, pats, exts, dirs) ==
  \/ \E i \in DOMAIN pats : fnmatch(f, pats[i])
  \/ /\ splitext_ext(f) # <<>>
     /\ LowerStr(Drop(splitext_ext(f), 1)) \in exts
  \/ \E segment \in Range(Split(f, "/")) : segment \in dirs
  \/ Contains(LowerStr(basename(f)), <<"t", "e", "s", "t">>)

\* C8: the repository filter of either variant drops a tracked file exactly
\* when one of the four rules excludes it: a glob pattern matches its path,
\* its extension (in lower case) is an excluded extension, a segment of its
\* path is an excluded directory, or its name contains "test".
C8_ExcludedExactlyByTheFourRules ==
  exclPc = "done" =>
    \A i \in DOMAIN exclIn :
      /\ exclIn[i] \notin Range(exclKept.hooks)
           <=> ExcludedByRules(exclIn[i], get_exclusion_patterns,
                               EXCLUDED_EXTENSIONS, EXCLUDED_DIRECTORIES)
      /\ exclIn[i] \notin Range(exclKept.genie)
           <=> ExcludedByRules(exclIn[i], <<>>,
                               GENIE_EXCLUDED_EXTENSIONS, GENIE_EXCLUDED_DIRECTORIES)

-----------------------------------------------------------------------------
(* Claims about the fallback chain, checked under SpecPush                 *)

\* The fallback levels, in the order of the chain.
FallbackLevels ==
  <<"last_pushed_diff", "upstream_diff", "no_remote_branch", "latest_commit",
    "all_tracked_files">>

\* C10: get_pushed_files does not raise, and when it returns no file it has
\* attempted every fallback level.
C10_EmptyOnlyAfterEveryFallback ==
  pushPc = "done" =>
    /\ ~pushRet.raised
    /\ pushRet.files = <<>> => Range(FallbackLevels) \subseteq Range(pushTried)

-----------------------------------------------------------------------------
(* Claims about the Entropy Scorer, checked under SpecEntropy              *)

\* The characters of text put in the order of the alphabet.
SortedText(text) ==
  [i \in 1..Freq(text, "a") |-> "a"] \o [i \in 1..Freq(text, "b") |-> "b"]
    \o [i \in 1..Freq(text, "c") |-> "c"]

\* C20: the entropy of the empty text is 0, that of a text of one repeated
\* character is 0, that of "ab" is 1.0; the entropy is the same for every
\* arrangement of the characters of a text, so it equals that of the
\* sorted text; and SecretScanner.calculate_entropy and
\* utils.calculate_entropy return equal values on every text.
C20_EntropyOfTheCountsOnly ==
  /\ entOut.scanner # None =>
       /\ Cardinality(Range(entIn.text)) <= 1 => EqF64(entOut.scanner.v, "0.0")
       /\ entIn.text = <<"a", "b">> => entOut.scanner.v = "1.0"
       /\ EqF64(entOut.scanner.v, calculate_entropy_f64(SortedText(entIn.text)))
  /\ (entOut.scanner # None /\ entOut.utils # None)
       => EqF64(entOut.scanner.v, entOut.utils.v)

-----------------------------------------------------------------------------
(* Claims about the meta file reader, checked under SpecRead               *)

\* C11: for every text that an api.meta file holds, the parser returns a
\* mapping and validation runs the 22 rules on it; no text makes
\* validation pass the rules over.
C11_EveryTextParsesToAMappingAndTheRulesRun ==
  (apiRuns > 0 /\ apiLast.file # None) =>
    /\ IsDict(apiLast.read)
    /\ Len(apiLast.log) = Len(validation_rules)

RECURSIVE HasList(_)
\* The value is a list or holds one at some depth.
HasList(v) ==
  \/ IsList(v)
  \/ IsDict(v) /\ \E k \in DOMAIN v.v : HasList(v.v[k])

\* What _parse_simple_yaml makes of the text last read holds no list.
SimpleYamlYieldsNoList ==
  (apiRuns > 0 /\ apiLast.file # None) => ~HasList(_parse_simple_yaml(apiLast.file.v))

\* C27: for a pAPI descriptor in YAML whose businessModels is written as a
\* list with an object named WPB-CIDM, the parse gives
\* API.version.businessModels as a list that holds such an object, and the
\* 16th rule passes.
C27_YamlListOfWpbCidmPassesRule16 ==
  (apiRuns > 0 /\ apiLast.file \in {Some(text) : text \in PapiYamlTexts}) =>
    LET bm == _get_nested_value(apiLast.read, <<"API", "version", "businessModels">>)
    IN /\ IsList(bm)
       /\ \E i \in DOMAIN bm.v : IsWpbCidm(bm.v[i])
       /\ Len(apiLast.log) = Len(validation_rules)
       /\ apiLast.log[16].added = 0

-----------------------------------------------------------------------------
(* Claims about the API validator, checked under SpecApi                   *)

\* The files of a run that _read_file_content fails to read.
UnreadFiles(file_paths) ==
  {i \in DOMAIN _filter_files_by_type(file_paths) :
     _filter_files_by_type(file_paths)[i].state = "unreadable"}

\* C12: a non-interactive run in which the meta file satisfies every rule
\* and every file is read returns True and adds no error to those of the
\* validator, whatever its earlier runs recorded.
C12_PassOrFailIsOfTheRun ==
  (/\ apiRuns > 0
   /\ ~apiLast.interactive
   /\ apiLast.r.validation_passed
   /\ UnreadFiles(apiLast.file_paths) = {})
    => /\ apiLast.r.ret = TRUE
       /\ Len(apiLast.r.apiErrors) = apiLast.errorsBefore

\* The run returned the value b (it did not raise).
Returned(r, b) == "ret" \in DOMAIN r /\ r.ret = b

\* The repository types that are validated.
ValidatedTypes == {"PCF", "SHP", "IKP", "SHP/IKP"}

\* C21: on a validator whose repository type is not PCF, SHP, IKP or
\* SHP/IKP, validate_files, validate_staged_files and validate_commit_range
\* return True for every argument; no meta file is looked for or validated
\* and no error is recorded.
C21_UnvalidatedTypeSkipsEveryRun ==
  api_type \notin ValidatedTypes =>
    /\ skip_validation
    /\ meta_files = None
    /\ apiErrors = <<>> /\ mvErrors = <<>>
    /\ apiRuns > 0 =>
         /\ Returned(apiLast.r, TRUE)
         /\ ~apiLast.r.meta_checked
         /\ apiLast.r.read = None /\ apiLast.r.log = <<>>

\* C21 witness: a run on a validator of a General repository was handed
\* files while api.meta held a text that fails validation, and returned
\* True.
C21_SkippedWithFailingMetaFile ==
  /\ apiRuns > 0 /\ api_type = "General"
  /\ apiLast.file = Some(<<"[", "]">>)
  /\ apiLast.file_paths # <<>>
  /\ Returned(apiLast.r, TRUE)

\* The meta file holds a mapping that satisfies every rule.
MetaFileOk(file) ==
  The({IsDict(meta_content)
         /\ validate_meta_content(<<>>, meta_content, MetaPath).validation_passed :
       meta_content \in {read_meta_file(file, MetaPath)}})

\* C29: on a validator of a validated repository type no run returns True
\* while the repository has no api.meta file or its api.meta file violates
\* a rule, whatever the list of files handed to the run.
C29_NoPassWhileMetaFileFails ==
  (apiRuns > 0 /\ api_type \in ValidatedTypes /\ Returned(apiLast.r, TRUE)) =>
    /\ meta_files # Some(<<>>)
    /\ MetaFileOk(apiLast.file)

-----------------------------------------------------------------------------
(* Claims about the API identifier, checked under SpecIdent                *)

-----------------------------------------------------------------------------
(* Claims about the override gate, checked under SpecGate                  *)

-----------------------------------------------------------------------------
(* Claims about the Secret Scanner of secretgenie, checked under SpecGenie *)

\* The place of a Finding.
PlaceOf(finding) == <<finding.file_path, finding.line_number>>

\* The text of a comment line behind its marker.
Uncommented(line) ==
  LET text == Strip(line)
      marker == CHOOSE m \in CommentMarkers : StartsWith(text, m)
  IN Strip(Drop(text, Len(marker)))

\* The last call ran on a scanner on which no call was made before.
OnNewScanner == genieLast.op # "init" /\ genieLast.prev.op = "init"

\* The lines the last call was given, as a set of [file_path, line_number,
\* line]: the lines of the content, or the added lines of the staged diff as
\* scan_staged_changes recorded them.
LinesGiven ==
  IF genieLast.op = "scan_content"
  THEN {[file_path |-> genieLast.file_path, line_number |-> i, line |-> genieLast.lines[i]] :
          i \in DOMAIN genieLast.lines}
  ELSE UNION {{[file_path |-> genieLast.changed_lines[i].key,
                line_number |-> genieLast.changed_lines[i].value[j].key,
                line |-> genieLast.changed_lines[i].value[j].value] :
                 j \in DOMAIN genieLast.changed_lines[i].value} :
                i \in DOMAIN genieLast.changed_lines}

\* C23: comment lines are scanned. After scan_content or
\* scan_staged_changes on a new scanner, every line given to it that starts
\* with #, //, /* or * and whose text behind the marker holds a secret not
\* found at another place has a Finding at its place, with the matched
\* content and the type the text behind the marker yields.
C23_CommentLineWithSecretYieldsFinding ==
  OnNewScanner =>
    \A given \in LinesGiven :
      IsCommentLine(given.line) =>
        LET place == <<given.file_path, given.line_number>>
            elsewhere == {genieLast.ret[j].matched_content :
                            j \in {k \in DOMAIN genieLast.ret :
                                     PlaceOf(genieLast.ret[k]) # place}}
            r == GenieLineSecret(Uncommented(given.line), elsewhere)
        IN r # <<>> =>
             \E j \in DOMAIN genieLast.ret :
               /\ PlaceOf(genieLast.ret[j]) = place
               /\ genieLast.ret[j].matched_content = r[1].matched_content
               /\ genieLast.ret[j].type = r[1].type

\* The last call was scan_staged_changes and it read a diff.
StagedScanRan ==
  /\ genieLast.op = "scan_staged_changes"
  /\ genieLast.git_ok
  /\ genieLast.staged.staged_files # <<>>

\* C25: the two diff parsers agree on line numbers. For every file that both
\* get_git_diff and the parser of scan_staged_changes recorded from the same
\* diff text, the line numbers of its added lines are the same in both.
C25_ParsersAgreeOnLineNumbers ==
  StagedScanRan =>
    LET file_changes == StagedDiffTable[genieLast.staged.diff_output] IN
    \A i \in DOMAIN genieLast.changed_lines :
      LET file == genieLast.changed_lines[i].key
          lines == genieLast.changed_lines[i].value
      IN file \in DOMAIN file_changes =>
           [j \in DOMAIN lines |-> lines[j].key]
             = [j \in DOMAIN file_changes[file] |-> file_changes[file][j][1]]

\* The last token of each `diff --git a/<p> b/<p>` line of the diff, without
\* its first two characters `b/`.
ChangedPaths(diff_output) ==
  {Drop(Words(diff_output[i])[Len(Words(diff_output[i]))], 2) :
     i \in {k \in DOMAIN diff_output : StartsWith(diff_output[k], <<"d", "i", "f", "f", " ", "-", "-", "g", "i", "t">>)}}

\* C26: scan_staged_changes records the changed lines, and on a new scanner
\* reports its Findings, under exactly the repository paths of the changed
\* files.
C26_RecordedUnderTheRepositoryPath ==
  StagedScanRan =>
    LET paths == ChangedPaths(genieLast.staged.diff_output) IN
    /\ {genieLast.changed_lines[i].key : i \in DOMAIN genieLast.changed_lines} = paths
    /\ OnNewScanner =>
         \A j \in DOMAIN genieLast.ret : genieLast.ret[j].file_path \in paths

\* C28: re-scanning is idempotent within a session. A call of scan_content
\* that follows a call of scan_content with the same content and file path
\* on the same scanner returns the same list of Findings.
C28_RescanReturnsTheSameFindings ==
  (/\ genieLast.op = "scan_content"
   /\ genieLast.prev.op = "scan_content"
   /\ genieLast.prev.lines = genieLast.lines
   /\ genieLast.prev.file_path = genieLast.file_path)
    => genieLast.ret = genieLast.prev.ret

====
